---- MODULE Spec2Model ----
(***************************************************************************)
(* A model of MapMod/main.py (GoogleMapsEditBot): the cross-frame script   *)
(* evaluator, the place-name selector cascade that runs through it, the    *)
(* coordinate click dispatcher with its window.__botClicking suppression   *)
(* flag, and the manual-click listener.                                    *)
(*                                                                         *)
(* The specifications share the variables:                                 *)
(*   SpecEval   one call of _evaluate_in_all_frames over a frozen DOM      *)
(*   SpecClick  calls of _click_xy_in_frame and of the direct click        *)
(*              primitives, interleaved with human and synthetic clicks    *)
(*   SpecSubmit one evaluation of the submit-control script                *)
(*   SpecOpen   one call of open_suggest_edit                              *)
(*   SpecName   one call of submit_name_change                             *)
(*   SpecStages any one of the evaluator, open_suggest_edit and            *)
(*              submit_name_change, each started on its own                *)
(*   SpecCalls  any one of search_location, open_suggest_edit,             *)
(*              submit_name_change and submit_address_change               *)
(*   SpecMain   one run of main_async, from the construction of the bot    *)
(*              to the end of the finally block, close() included          *)
(*   SpecMainLive  SpecMain with the event loop running the coroutine on   *)
(*   SpecSession   several runs choosing their profile directory           *)
(*   SpecConfirm   one evaluation of the confirmation script               *)
(*   SpecRunLive   SpecCalls and SpecMain together, with the event loop    *)
(*                 running the coroutine on                                *)
(***************************************************************************)
EXTENDS Integers, Sequences, FiniteSets, TLC

\* ------------------------------------------------------------------ bounds
\* Sub-documents (iframes) attached to the page besides the top-level one.
MaxFrames == 2
\* Elements of interest in the whole document tree.
MaxElems == 2
\* Length of the ordered candidate list (place_name_selectors has seven).
NumCandidates == 2

\* ---------------------------------------------------------------- documents
\* The top-level document (page.main_frame); sub-documents are 1, 2, ...
Main == 0
\* Python's None in the owner position of the returned pair.
NoFrame == -1

VARIABLES
    frames,     \* page.frames: the attached frames in registration order, main frame first
    dom,        \* the elements of the document tree, grouped by document, in document order
    throws,     \* throws[d]: frame.evaluate raises in document d (cross-origin, navigation race)
    query,      \* which script the caller handed to _evaluate_in_all_frames
    raw,        \* raw[d]: what a caller-supplied generic script yields in document d
    fe_pc,      \* position inside _evaluate_in_all_frames
    fe_i,       \* index of the for loop over page.frames
    fe_ret,     \* the returned pair (result, frame)
    parent,     \* parent[d]: the document that embeds sub-document d
    xorigin,    \* xorigin[d]: d may not touch window.top / window.parent (cross-origin)
    flag,       \* flag[d]: window.__botClicking in document d
    click_delay, \* self.click_delay: 0, or 1 for any positive delay
    cl_pc,      \* position inside _click_xy_in_frame or a direct click
    cl_prim,    \* the click primitive in use, "none" when no click is being made
    cl_value,   \* the argument of the running _set_bot_clicking_for_all_frames
    cl_i,       \* index of its for loop over page.frames
    cl_fault,   \* mouse.click raised and the exception is in flight
    scriptOk,   \* scriptOk[d]: the flag script of the latest pass ran in d without raising
    proto,      \* the protocol steps the running _click_xy_in_frame has completed
    lastEvent,  \* the latest click event and what the listener did with it
    text,       \* text[i]: the trimmed, lower-cased text of element i, by kind
    panel_wait_seconds, \* self.panel_wait_seconds
    op_pc,      \* position inside open_suggest_edit
    attempt,    \* panel-poll probes made so far
    panel_loaded, \* the local panel_loaded
    detected_at, \* the probe that saw the panel, 0 when none has
    all_raised, \* every probe made so far raised
    sel_i,      \* tier 1: position in the selector list, 0 before tier 1
    matches,    \* tier 1: the elements the current selector matches, in document order
    m_idx,      \* tier 1: the match being tried (1-based), 0 before count()
    found,      \* the local found
    clicked,    \* tier 1: the selector and the match that took the click
    acted,      \* the tiers that issued a click or a key press, in the order they first did
    tabs,       \* tier 3: Tab presses that returned
    op_ret,     \* what open_suggest_edit returned
    debug_files, \* the debug screenshot and HTML: not attempted, written, or failed
    key_fault,  \* tier 3: a key press raised
    post_ok_click, \* self.post_ok_click
    nm_pc,      \* position inside submit_name_change
    clickables, \* the clickable elements of the top-level document, in document order
    pass_i,     \* the item of js_result a coordinate pass is at
    tried,      \* the entries on which a coordinate click was attempted, in order
    menu_hit,   \* the entry whose coordinate click returned, 0 when none has
    clicked_menu_option, \* the local clicked_menu_option
    clicked_via_js, \* the local clicked_via_js
    menu_via,   \* the pass that clicked the menu entry
    hint_entry, \* where the dialog had a visible entry with the hint: none, listed, beyond the cap
    nm_fault,   \* some driver call of this submit_name_change raised
    name_attempt, \* passes of the name-input poll made so far
    name_found_at, \* the pass that resolved the name input, 0 when none has
    filled,     \* the new name was typed into the resolved name input
    submit_found, \* outcome of the submit resolution
    submit_clicked, \* the click on the submit control returned
    enter,      \* the Enter fallback: not used, pressed, or raised
    confirm_attempt, \* passes of the confirmation poll made so far
    confirm_found_at, \* the pass that resolved a confirmation control, 0 when none has
    confirm_click, \* the click on the confirmation control: none, clicked, or raised
    fb_inputs,  \* the editable elements the fallback scan returned
    fb_i,       \* the fallback input being tried
    typed,      \* fallback inputs the new name was typed into
    nm_ret,     \* what submit_name_change returned
    sr_pc,      \* position inside search_location
    sr_i,       \* position in its selector list
    search_box, \* the local search_box: 0 for None, else the selector whose locator it is
    sr_via,     \* how the query was entered: none, fill, keyboard
    sr_ret,     \* what search_location returned
    ad_pc,      \* position inside submit_address_change
    ad_i,       \* position in the selector list of the running loop
    ad_menu,    \* the click on an address menu entry returned
    ad_filled,  \* address_input.fill(new_address) returned
    ad_flag,    \* the local clicked_menu_option
    submitted,  \* the local submitted
    ad_ret,     \* what submit_address_change returned
    name,       \* main_async: a new name was requested
    address,    \* main_async: a new address was requested
    signin_time, \* main_async: 0, or 1 for any positive sign-in wait
    m_pc,       \* position inside main_async
    bot,        \* the local bot is bound to a GoogleMapsEditBot
    running,    \* the stage operation that is executing, "none" between stages
    entered,    \* the stage operations entered so far, in order
    returned,   \* returned[s]: what stage s returned, "none" until it does
    pending,    \* the exception in flight inside main_async
    m_exit,     \* how the try block of main_async was left
    cl_calls,   \* calls of bot.close() made so far
    cl_step,    \* position inside close()
    cl_raised,  \* an exception left close()
    now,        \* time.time() in half seconds
    sessions    \* the runs started so far: start time, new_session, user_data_dir

evalVars == <<dom, throws, query, raw, fe_pc, fe_i, fe_ret>>
clickVars == <<parent, xorigin, flag, click_delay, cl_pc, cl_prim, cl_value, cl_i,
               cl_fault, scriptOk, proto, lastEvent>>
openVars == <<panel_wait_seconds, op_pc, attempt, panel_loaded, detected_at, all_raised,
              sel_i, matches, m_idx, found, clicked, acted, tabs, op_ret, debug_files,
              key_fault>>
searchVars == <<sr_pc, sr_i, search_box, sr_via, sr_ret>>
addrVars == <<ad_pc, ad_i, ad_menu, ad_filled, ad_flag, submitted, ad_ret>>
mainVars == <<name, address, signin_time, m_pc, bot, running, entered, returned, pending,
              m_exit, cl_calls, cl_step, cl_raised>>
sessionVars == <<now, sessions>>
vars == <<frames, dom, throws, query, raw, fe_pc, fe_i, fe_ret,
          parent, xorigin, flag, click_delay, cl_pc, cl_prim, cl_value, cl_i,
          cl_fault, scriptOk, proto, lastEvent, text,
          panel_wait_seconds, op_pc, attempt, panel_loaded, detected_at, all_raised,
          sel_i, matches, m_idx, found, clicked, acted, tabs, op_ret, debug_files, key_fault,
          post_ok_click, nm_pc, clickables, pass_i, tried, menu_hit, clicked_menu_option,
          clicked_via_js, menu_via, hint_entry, nm_fault, name_attempt, name_found_at, filled, submit_found,
          submit_clicked, enter, confirm_attempt, confirm_found_at, confirm_click,
          fb_inputs, fb_i, typed, nm_ret,
          sr_pc, sr_i, search_box, sr_via, sr_ret,
          ad_pc, ad_i, ad_menu, ad_filled, ad_flag, submitted, ad_ret,
          name, address, signin_time, m_pc, bot, running, entered, returned, pending,
          m_exit, cl_calls, cl_step, cl_raised, now, sessions>>
nameVars == <<post_ok_click, nm_pc, clickables, pass_i, tried, menu_hit, clicked_menu_option,
              clicked_via_js, menu_via, hint_entry, nm_fault, name_attempt, name_found_at, filled, submit_found,
              submit_clicked, enter, confirm_attempt, confirm_found_at, confirm_click,
              fb_inputs, fb_i, typed, nm_ret>>
runVars == <<searchVars, addrVars, mainVars, sessionVars>>
pageVars == <<frames, evalVars, clickVars, text>>
nonEvalVars == <<clickVars, text, openVars, nameVars, runVars>>
nonClickVars == <<evalVars, text, openVars, nameVars, runVars>>
nonOpenVars == <<frames, evalVars, clickVars, text, nameVars, runVars>>
nonNameVars == <<frames, evalVars, clickVars, text, openVars, runVars>>
nonSearchVars == <<pageVars, openVars, nameVars, addrVars, mainVars, sessionVars>>
nonAddrVars == <<pageVars, openVars, nameVars, searchVars, mainVars, sessionVars>>
nonMainVars == <<pageVars, openVars, nameVars, searchVars, addrVars, sessionVars>>
nonSessionVars == <<pageVars, openVars, nameVars, searchVars, addrVars, mainVars>>

AttachedDocs == {frames[i] : i \in 1..Len(frames)}
SubDocs == AttachedDocs \ {Main}

\* ------------------------------------------------------------ script results
\* What page.evaluate hands back to Python: None, an empty value ({}, [], 0, ""),
\* some non-empty value, or the target dictionary built by a resolver script.
NullResult == [kind |-> "null", doc |-> NoFrame, idx |-> 0, sel |-> 0, foundBy |-> "none"]
EmptyResult == [kind |-> "empty", doc |-> NoFrame, idx |-> 0, sel |-> 0, foundBy |-> "none"]
Value(d) == [kind |-> "value", doc |-> d, idx |-> 0, sel |-> 0, foundBy |-> "none"]
Target(d, i, tag) == [kind |-> "target", doc |-> d, idx |-> i, sel |-> dom[i].sel, foundBy |-> tag]

\* Python truth value of an evaluate() result (`if result:`).
Truthy(r) == r.kind \notin {"null", "empty"}

\* ------------------------------------------------- place-name resolver script
\* document.querySelector(selector) in document d: the first element in document
\* order that the candidate matches, 0 when there is none.
QuerySelector(d, c) ==
    LET hits == {i \in 1..Len(dom) : dom[i].doc = d /\ dom[i].sel = c}
    IN  IF hits = {} THEN 0 ELSE CHOOSE i \in hits : \A j \in hits : i <= j

IsVisible_Always(i) == TRUE
\* rect.width > 0 && rect.height > 0
IsVisible(i) == dom[i].vis

\* `for (let selector of selectors)`: candidates c, c+1, ... in list order.
RECURSIVE ScanSelectors(_, _)
ScanSelectors(d, c) ==
    IF c > NumCandidates THEN NullResult
    ELSE LET input == QuerySelector(d, c)
         IN  IF input # 0 /\ IsVisible(input)
             THEN Target(d, input, "captured-selectors")
             ELSE ScanSelectors(d, c + 1)

\* The label-proximity fallback: the 'place name' labels of d in document order,
\* each with the first input-like descendant of its container (an element with
\* sel = 0: reached from a label, matched by no candidate).
RECURSIVE ScanLabels(_, _)
ScanLabels(d, i) ==
    IF i > Len(dom) THEN NullResult
    ELSE IF dom[i].doc = d /\ dom[i].sel = 0 /\ IsVisible(i)
         THEN Target(d, i, "label-proximity")
         ELSE ScanLabels(d, i + 1)

RECURSIVE ScanSelectors_Reversed(_, _)
ScanSelectors_Reversed(d, c) ==
    IF c < 1 THEN NullResult
    ELSE LET input == QuerySelector(d, c)
         IN  IF input # 0 /\ IsVisible(input)
             THEN Target(d, input, "captured-selectors")
             ELSE ScanSelectors_Reversed(d, c - 1)

PlaceNameScript_LastCandidateFirst(d) ==
    LET bySelector == ScanSelectors_Reversed(d, NumCandidates)
    IN  IF bySelector # NullResult THEN bySelector ELSE ScanLabels(d, 1)

PlaceNameScript_LabelsFirst(d) ==
    LET byLabel == ScanLabels(d, 1)
    IN  IF byLabel # NullResult THEN byLabel ELSE ScanSelectors(d, 1)

\* The script of the name-input poll, run in one document.
PlaceNameScript(d) ==
    LET bySelector == ScanSelectors(d, 1)
    IN  IF bySelector # NullResult THEN bySelector ELSE ScanLabels(d, 1)

\* ------------------------------------------------------ submit-control script
\* The entries of submit_selectors that document.querySelectorAll accepts: the
\* first three. The fourth, 'span:has-text("Submit")', is not a CSS selector;
\* querySelectorAll throws on it and nothing in the script catches that.
ValidSubmitSelectors == 3
\* The rank of '*[aria-label*="Submit" i]' in submit_selectors.
AriaSubmitSelector == 8
\* len(self.submit_selectors)
NumSubmitSelectors == 9

\* isVisible && (text === 'submit' || text.includes('submit') || text.includes('send'))
SubmitHit_ExactOnly(i) == IsVisible(i) /\ text[i] = "submit"
SubmitHit(i) == IsVisible(i) /\ text[i] \in {"submit", "contains"}

\* `for (let btn of nodes)`: the nodes of document d that selector c matches,
\* from element i on, in document order; the first hit is returned, tagged
\* 'exact-match' (its own center) or 'ancestor' (the center of its closest
\* clickable ancestor).
RECURSIVE ScanNodes(_, _, _)
ScanNodes(d, c, i) ==
    IF i > Len(dom) THEN NullResult
    ELSE IF dom[i].doc = d /\ dom[i].sel = c /\ SubmitHit(i)
         THEN Target(d, i, IF text[i] = "submit" THEN "exact-match" ELSE "ancestor")
         ELSE ScanNodes(d, c, i + 1)

RECURSIVE SubmitScan_AllParse(_, _)
SubmitScan_AllParse(d, c) ==
    IF c > NumSubmitSelectors THEN NullResult
    ELSE LET hit == ScanNodes(d, c, 1)
         IN  IF hit # NullResult THEN hit ELSE SubmitScan_AllParse(d, c + 1)

\* `for (let selector of selectors)` over the selectors that parse.
RECURSIVE SubmitScan(_, _)
SubmitScan(d, c) ==
    IF c > ValidSubmitSelectors THEN NullResult
    ELSE LET hit == ScanNodes(d, c, 1)
         IN  IF hit # NullResult THEN hit ELSE SubmitScan(d, c + 1)

\* The submit script run in document d. It returns at the first hit; with no hit
\* under the first three selectors it reaches the fourth and throws.
SubmitScript(d) == SubmitScan(d, 1)
SubmitScriptThrows(d) == SubmitScript(d) = NullResult

\* --------------------------------------------------- confirmation script
\* The elements the confirmation script can match carry two more fields: dlg,
\* the element is a button or [role="button"] inside div[role="dialog"] or
\* div[aria-modal="true"]; and cls, what else matches it: "material" for the
\* classes VfPpkd-LgbsSe and VfPpkd-vQzf8d, "okclass" for okDpye and PpaGLb,
\* "aria" for aria-label OK, Done or Close, "button" for nothing else. text is
\* "allow" when the trimmed lower-cased text equals or includes one of 'ok',
\* 'done', 'got it', 'close', "empty" when there is none, "other" otherwise.

\* `for (let el of nodes)` of document.querySelectorAll(rootSel), from element
\* i on: the first visible element, with an allow-listed text when needLabel.
\* "dialog" stands for the selectors scoped to a dialog container.
RECURSIVE ScanRoot(_, _, _, _)
ScanRoot(d, rootSel, needLabel, i) ==
    IF i > Len(dom) THEN 0
    ELSE IF /\ dom[i].doc = d /\ IsVisible(i)
            /\ IF rootSel = "dialog" THEN dom[i].dlg ELSE dom[i].cls = rootSel
            /\ needLabel => text[i] = "allow"
         THEN i
         ELSE ScanRoot(d, rootSel, needLabel, i + 1)

RECURSIVE ScanList(_, _, _, _)
ScanList(d, list, needLabel, k) ==
    IF k > Len(list) THEN 0
    ELSE LET hit == ScanRoot(d, list[k], needLabel, 1)
         IN  IF hit # 0 THEN hit ELSE ScanList(d, list, needLabel, k + 1)

\* "Third": the first visible button of a dialog with a non-empty text.
RECURSIVE ScanDialogs(_, _)
ScanDialogs(d, i) ==
    IF i > Len(dom) THEN 0
    ELSE IF dom[i].doc = d /\ dom[i].dlg /\ IsVisible(i) /\ text[i] # "empty"
         THEN i
         ELSE ScanDialogs(d, i + 1)

\* The confirmation script run in document d. 'First': dialogSelectors in list
\* order (three scoped to a dialog, two material classes, four ok classes), an
\* allow-listed text required. 'Second': the entries of okSelectors that
\* querySelectorAll accepts (the ':has-text' entries before them throw inside
\* the script's try/catch), any visible element. 'Third': the dialogs.
ConfirmScript(d) ==
    LET first == ScanList(d, <<"dialog", "material", "okclass">>, TRUE, 1)
        second == ScanList(d, <<"aria", "okclass">>, FALSE, 1)
        third == ScanDialogs(d, 1)
    IN  IF first # 0 THEN Target(d, first, "first")
        ELSE IF second # 0 THEN Target(d, second, "second")
        ELSE IF third # 0 THEN Target(d, third, "third")
        ELSE NullResult

\* A generic script: the caller's query yields raw[d] in document d.
ProbeScript(d) ==
    CASE raw[d] = "null" -> NullResult
      [] raw[d] = "empty" -> EmptyResult
      [] OTHER -> Value(d)

\* frame.evaluate(js) when it does not raise.
Evaluate(d) ==
    CASE query = "place_name" -> PlaceNameScript(d)
      [] query = "submit" -> SubmitScript(d)
      [] query = "confirm" -> ConfirmScript(d)
      [] OTHER -> ProbeScript(d)

\* ------------------------------------------------- _evaluate_in_all_frames
NoneNone == [result |-> NullResult, owner |-> NoFrame]

FrameAt_Reversed(i) == frames[Len(frames) + 1 - i]
\* `for frame in self.page.frames`: the i-th frame of the loop.
FrameAt(i) == frames[i]

EvalMain_NoEarlyReturn ==
    /\ fe_pc = "main"
    /\ fe_pc' = "frames"
    /\ fe_i' = 1
    /\ UNCHANGED <<frames, dom, throws, query, raw, fe_ret>>

\* try: result = await self.page.evaluate(js); if result: return result, main_frame
\* except Exception: pass
EvalMain ==
    /\ fe_pc = "main"
    /\ IF ~throws[Main] /\ Truthy(Evaluate(Main))
       THEN /\ fe_pc' = "done"
            /\ fe_ret' = [result |-> Evaluate(Main), owner |-> Main]
            /\ fe_i' = fe_i
       ELSE /\ fe_pc' = "frames"
            /\ fe_i' = 1
            /\ fe_ret' = fe_ret
    /\ UNCHANGED <<frames, dom, throws, query, raw>>

EvalFrame_RaisePropagates ==
    /\ fe_pc = "frames"
    /\ fe_i <= Len(frames)
    /\ LET frame == FrameAt(fe_i)
       IN  IF frame = Main
           THEN /\ fe_i' = fe_i + 1
                /\ UNCHANGED <<fe_pc, fe_ret>>
           ELSE IF throws[frame]
           THEN /\ fe_pc' = "raised"
                /\ UNCHANGED <<fe_i, fe_ret>>
           ELSE IF Truthy(Evaluate(frame))
           THEN /\ fe_pc' = "done"
                /\ fe_ret' = [result |-> Evaluate(frame), owner |-> frame]
                /\ fe_i' = fe_i
           ELSE /\ fe_i' = fe_i + 1
                /\ UNCHANGED <<fe_pc, fe_ret>>
    /\ UNCHANGED <<frames, dom, throws, query, raw>>

\* One pass of the loop body: skip the main frame, evaluate, return on a truthy
\* result, `continue` on an exception or a falsy result.
EvalFrame ==
    /\ fe_pc = "frames"
    /\ fe_i <= Len(frames)
    /\ LET frame == FrameAt(fe_i)
       IN  IF frame = Main
           THEN /\ fe_i' = fe_i + 1
                /\ UNCHANGED <<fe_pc, fe_ret>>
           ELSE IF ~throws[frame] /\ Truthy(Evaluate(frame))
           THEN /\ fe_pc' = "done"
                /\ fe_ret' = [result |-> Evaluate(frame), owner |-> frame]
                /\ fe_i' = fe_i
           ELSE /\ fe_i' = fe_i + 1
                /\ UNCHANGED <<fe_pc, fe_ret>>
    /\ UNCHANGED <<frames, dom, throws, query, raw>>

\* The loop is exhausted: return None, None.
ReturnNone ==
    /\ fe_pc = "frames"
    /\ fe_i > Len(frames)
    /\ fe_pc' = "done"
    /\ fe_ret' = NoneNone
    /\ UNCHANGED <<frames, dom, throws, query, raw, fe_i>>

\* ------------------------------------------------------- suppression flag
\* The documents that the flag script reaches when it runs in document d: its own
\* window, and window.top and window.parent unless touching them throws inside
\* the script's try/catch (cross-origin).
Writes_TopOnly(d) == {Main}
Writes(d) == {d} \cup (IF d = Main \/ xorigin[d] THEN {} ELSE {Main, parent[d]})

\* window.__botClicking = value, as the script leaves the flags after running in d.
SetFlagScript(f, d, value) == [x \in DOMAIN f |-> IF x \in Writes(d) THEN value ELSE f[x]]

\* d and every document nested in it.
RECURSIVE InSubtree(_, _)
InSubtree(x, d) == x = d \/ (x # Main /\ InSubtree(parent[x], d))

\* The init script of every new document: window.__botClicking = false.
InitScript(f, d) == [x \in DOMAIN f |-> IF InSubtree(x, d) THEN FALSE ELSE f[x]]

\* ---------------------------------------------------- manual-click listener
\* The capturing listener: `if (!ev.isTrusted || window.__botClicking) return;`
\* otherwise one call of window.pyOnClick. The number of records it makes.
ClickListener_IgnoresTrust(isTrusted, botClicking) == IF botClicking THEN 0 ELSE 1
ClickListener_IgnoresFlag(isTrusted, botClicking) == IF ~isTrusted THEN 0 ELSE 1
ClickListener(isTrusted, botClicking) == IF ~isTrusted \/ botClicking THEN 0 ELSE 1

NoEvent == [origin |-> "none", isTrusted |-> FALSE, botClicking |-> FALSE, recorded |-> 0]

\* A click event dispatched in document d.
ClickEvent(origin, d, isTrusted) ==
    [origin |-> origin, isTrusted |-> isTrusted, botClicking |-> flag[d],
     recorded |-> ClickListener(isTrusted, flag[d])]

\* ------------------------------------------------------------ click sites
\* The pointer clicks of the stages, by source line, and the primitive each uses.
XYSites == {944, 1018, 1100}
MouseSites == {597, 795, 815, 838, 1179, 1252}
LocatorSites == {568, 633, 862, 1323, 1352, 1384}
ClickSites == XYSites \cup MouseSites \cup LocatorSites

SitePrimitive(site) ==
    IF site \in XYSites THEN "_click_xy_in_frame"
    ELSE IF site \in MouseSites THEN "page.mouse.click" ELSE "locator.click"

Protocol == <<"set", "click", "clear", "delay">>

\* ------------------------------------------------------ _click_xy_in_frame
\* A stage reaches one of its clicks. Through _click_xy_in_frame the try block
\* starts with _set_bot_clicking_for_all_frames(True); the other sites call the
\* driver directly.
StartClick(site) ==
    /\ cl_pc = "idle"
    /\ cl_prim' = SitePrimitive(site)
    /\ IF SitePrimitive(site) = "_click_xy_in_frame"
       THEN /\ cl_pc' = "flag_page"
            /\ cl_value' = TRUE
            /\ scriptOk' = [d \in AttachedDocs |-> FALSE]
       ELSE /\ cl_pc' = "direct"
            /\ UNCHANGED <<cl_value, scriptOk>>
    /\ proto' = <<>>
    /\ cl_fault' = FALSE
    /\ UNCHANGED <<frames, parent, xorigin, flag, click_delay, cl_i, lastEvent>>

\* _set_bot_clicking_for_all_frames: try: await self.page.evaluate(js) except: pass
FlagPage ==
    /\ cl_pc = "flag_page"
    /\ \E ok \in BOOLEAN :
         IF ok
         THEN /\ flag' = SetFlagScript(flag, Main, cl_value)
              /\ scriptOk' = [scriptOk EXCEPT ![Main] = TRUE]
         ELSE UNCHANGED <<flag, scriptOk>>
    /\ cl_pc' = "flag_frames"
    /\ cl_i' = 1
    /\ UNCHANGED <<frames, parent, xorigin, click_delay, cl_prim, cl_value, cl_fault, proto, lastEvent>>

\* Where _click_xy_in_frame goes on when _set_bot_clicking_for_all_frames returns:
\* into mouse.click after the call in the try block, and after the call in the
\* finally block out with the exception in flight, or into the settle delay.
AfterFlagPass ==
    IF cl_value THEN "click"
    ELSE IF cl_fault THEN "raised"
    ELSE IF click_delay > 0 THEN "delay" ELSE "returned"

ProtoAfterFlagPass ==
    IF cl_value THEN Append(proto, "set")
    ELSE IF ~cl_fault /\ click_delay > 0 THEN proto \o <<"clear", "delay">>
    ELSE Append(proto, "clear")

\* for fr in self.page.frames: try: await fr.evaluate(js) except: continue
FlagFrame ==
    /\ cl_pc = "flag_frames"
    /\ cl_i <= Len(frames)
    /\ LET fr == frames[cl_i]
       IN  \E ok \in BOOLEAN :
             IF ok
             THEN /\ flag' = SetFlagScript(flag, fr, cl_value)
                  /\ scriptOk' = [scriptOk EXCEPT ![fr] = TRUE]
             ELSE UNCHANGED <<flag, scriptOk>>
    /\ IF cl_i < Len(frames)
       THEN /\ cl_i' = cl_i + 1
            /\ UNCHANGED <<cl_pc, proto>>
       ELSE /\ cl_i' = 0
            /\ cl_pc' = AfterFlagPass
            /\ proto' = ProtoAfterFlagPass
    /\ UNCHANGED <<frames, parent, xorigin, click_delay, cl_prim, cl_value, cl_fault, lastEvent>>

\* await target_page.mouse.click(x, y) is called.
ClickBegin ==
    /\ cl_pc = "click"
    /\ cl_pc' = "clicking"
    /\ proto' = Append(proto, "click")
    /\ UNCHANGED <<frames, parent, xorigin, flag, click_delay, cl_prim, cl_value, cl_i,
                   cl_fault, scriptOk, lastEvent>>

\* The browser dispatches the (trusted) click event in the document under (x, y).
ClickFire(d) ==
    /\ cl_pc = "clicking"
    /\ cl_pc' = "clicked"
    /\ lastEvent' = ClickEvent("bot", d, TRUE)
    /\ UNCHANGED <<frames, parent, xorigin, flag, click_delay, cl_prim, cl_value, cl_i,
                   cl_fault, scriptOk, proto>>

ClickReturn_DelayBeforeClear ==
    /\ cl_pc = "clicked"
    /\ cl_pc' = "delay"
    /\ proto' = Append(proto, "delay")
    /\ UNCHANGED <<frames, parent, xorigin, flag, click_delay, cl_prim, cl_value, cl_i,
                   cl_fault, scriptOk, lastEvent>>

\* mouse.click returns; finally: _set_bot_clicking_for_all_frames(False).
ClickReturn ==
    /\ cl_pc = "clicked"
    /\ cl_pc' = "flag_page"
    /\ cl_value' = FALSE
    /\ scriptOk' = [d \in AttachedDocs |-> FALSE]
    /\ UNCHANGED <<frames, parent, xorigin, flag, click_delay, cl_prim, cl_i, cl_fault,
                   proto, lastEvent>>

ClickRaise_NoFinally ==
    /\ cl_pc = "clicking"
    /\ cl_pc' = "raised"
    /\ cl_fault' = TRUE
    /\ UNCHANGED <<frames, parent, xorigin, flag, click_delay, cl_prim, cl_value, cl_i,
                   scriptOk, proto, lastEvent>>

\* mouse.click raises; finally: _set_bot_clicking_for_all_frames(False), and the
\* exception stays in flight: the try has no except clause.
ClickRaise ==
    /\ cl_pc = "clicking"
    /\ cl_pc' = "flag_page"
    /\ cl_value' = FALSE
    /\ cl_fault' = TRUE
    /\ scriptOk' = [d \in AttachedDocs |-> FALSE]
    /\ UNCHANGED <<frames, parent, xorigin, flag, click_delay, cl_prim, cl_i, proto, lastEvent>>

\* if self.click_delay and self.click_delay > 0: await asyncio.sleep(self.click_delay)
Delay ==
    /\ cl_pc = "delay"
    /\ cl_pc' = "returned"
    /\ UNCHANGED <<frames, parent, xorigin, flag, click_delay, cl_prim, cl_value, cl_i,
                   cl_fault, scriptOk, proto, lastEvent>>

\* Control is back in the stage: after a normal return, or in the except clause
\* that the exception reached.
Finish ==
    /\ cl_pc \in {"returned", "raised", "direct_done"}
    /\ cl_pc' = "idle"
    /\ cl_prim' = "none"
    /\ cl_fault' = FALSE
    /\ proto' = <<>>
    /\ UNCHANGED <<frames, parent, xorigin, flag, click_delay, cl_value, cl_i, scriptOk, lastEvent>>

\* ------------------------------------------------------------ direct clicks
\* page.mouse.click(x, y) or locator.click() called by the stage itself: the
\* browser dispatches the trusted click event in the document under the pointer.
DirectClick(d) ==
    /\ cl_pc = "direct"
    /\ cl_pc' = "direct_done"
    /\ lastEvent' = ClickEvent("bot", d, TRUE)
    /\ UNCHANGED <<frames, parent, xorigin, flag, click_delay, cl_prim, cl_value, cl_i,
                   cl_fault, scriptOk, proto>>

\* The direct click raises before any event; the stage's except clause takes it.
DirectRaise ==
    /\ cl_pc = "direct"
    /\ cl_pc' = "direct_done"
    /\ UNCHANGED <<frames, parent, xorigin, flag, click_delay, cl_prim, cl_value, cl_i,
                   cl_fault, scriptOk, proto, lastEvent>>

\* -------------------------------------------------------------- environment
\* The user clicks in document d: a trusted event.
HumanClick(d) ==
    /\ lastEvent' = ClickEvent("human", d, TRUE)
    /\ UNCHANGED <<frames, parent, xorigin, flag, click_delay, cl_pc, cl_prim, cl_value, cl_i,
                   cl_fault, scriptOk, proto>>

\* A script calls element.click() in document d (as span.click() in
\* submit_name_change does): an event that is not trusted.
SyntheticClick(d) ==
    /\ lastEvent' = ClickEvent("synthetic", d, FALSE)
    /\ UNCHANGED <<frames, parent, xorigin, flag, click_delay, cl_pc, cl_prim, cl_value, cl_i,
                   cl_fault, scriptOk, proto>>

\* Document d navigates: a new document, with the sub-documents nested in it,
\* replaces it and runs the init script.
Reload(d) ==
    /\ \E x \in AttachedDocs : InSubtree(x, d) /\ (flag[x] \/ scriptOk[x])
    /\ flag' = InitScript(flag, d)
    /\ scriptOk' = InitScript(scriptOk, d)
    /\ UNCHANGED <<frames, parent, xorigin, click_delay, cl_pc, cl_prim, cl_value, cl_i,
                   cl_fault, proto, lastEvent>>

\* ------------------------------------------------------- open_suggest_edit
\* Bounds of the menu-open stage: the largest configured panel wait, the length
\* of the selector list (the code's has 26), and the most elements one selector
\* matches.
MaxPanelWait == 3
NumSelectors == 2
MaxMatches == 4

\* `for idx in range(min(count, 3))`: the matches of one selector that are tried.
MatchWindow == 3
\* `for _ in range(5): press('Tab')`
TabPresses == 5

\* bot.panel_wait_seconds = max(0, int(panel_wait))
ClampWait(p) == IF p < 0 THEN 0 ELSE p

PanelAttempts_NoFloor == panel_wait_seconds
\* range(max_attempts or 1)
PanelAttempts == IF panel_wait_seconds = 0 THEN 1 ELSE panel_wait_seconds

\* What a matched element does when tier 1 reaches it: is_visible() is false;
\* visible but is_enabled() is false; visible, enabled and click() returns;
\* visible, enabled and click(timeout=2000) raises.
MatchKinds == {"hidden", "disabled", "clickable", "stuck"}
MatchLists == UNION {[1..k -> MatchKinds] : k \in 0..MaxMatches}

NoClick == [sel |-> 0, idx |-> 0]

Min(a, b) == IF a < b THEN a ELSE b

\* Tier t issues a click or a key press.
Acts(t) == IF \E k \in 1..Len(acted) : acted[k] = t THEN acted ELSE Append(acted, t)

\* One pass of the panel poll: the probe sees the panel (panel_loaded = True;
\* break), or it does not, or it raises (except: pass), and then sleep(1).
PanelProbe ==
    /\ op_pc = "poll"
    /\ attempt < PanelAttempts
    /\ attempt' = attempt + 1
    /\ \E outcome \in {"visible", "absent", "raise"} :
         /\ panel_loaded' = (outcome = "visible")
         /\ detected_at' = IF outcome = "visible" THEN attempt + 1 ELSE 0
         /\ all_raised' = (all_raised /\ outcome = "raise")
         /\ IF outcome = "visible"
            THEN op_pc' = "tier1" /\ sel_i' = 1
            ELSE UNCHANGED <<op_pc, sel_i>>
    /\ UNCHANGED <<key_fault, debug_files, panel_wait_seconds, matches, m_idx, found, clicked, acted, tabs, op_ret>>

PanelPollEnd_Fails ==
    /\ op_pc = "poll"
    /\ attempt = PanelAttempts
    /\ op_pc' = "done"
    /\ op_ret' = "False"
    /\ UNCHANGED <<key_fault, debug_files, panel_wait_seconds, attempt, panel_loaded, detected_at, all_raised,
                   sel_i, matches, m_idx, found, clicked, acted, tabs>>

PanelPollEnd_Restart ==
    /\ op_pc = "poll"
    /\ attempt = PanelAttempts
    /\ attempt' = 0
    /\ UNCHANGED <<key_fault, debug_files, panel_wait_seconds, op_pc, panel_loaded, detected_at, all_raised,
                   sel_i, matches, m_idx, found, clicked, acted, tabs, op_ret>>

\* The poll ran out: `if not panel_loaded:` prints a warning and goes on.
PanelPollEnd ==
    /\ op_pc = "poll"
    /\ attempt = PanelAttempts
    /\ op_pc' = "tier1"
    /\ sel_i' = 1
    /\ UNCHANGED <<key_fault, debug_files, panel_wait_seconds, attempt, panel_loaded, detected_at, all_raised,
                   matches, m_idx, found, clicked, acted, tabs, op_ret>>

\* Method 1: all_matches = self.page.locator(selector); count = await
\* all_matches.count(). An empty match list, or count() raising, moves on to the
\* next selector.
Tier1Count ==
    /\ op_pc = "tier1"
    /\ sel_i <= NumSelectors
    /\ m_idx = 0
    /\ \E ms \in MatchLists : \E raises \in BOOLEAN :
         IF raises \/ ms = <<>>
         THEN /\ sel_i' = sel_i + 1
              /\ UNCHANGED <<matches, m_idx>>
         ELSE /\ matches' = ms
              /\ m_idx' = 1
              /\ sel_i' = sel_i
    /\ UNCHANGED <<key_fault, debug_files, panel_wait_seconds, op_pc, attempt, panel_loaded, detected_at, all_raised,
                   found, clicked, acted, tabs, op_ret>>

Tier1Window_Unbounded == Len(matches)
\* range(min(count, 3))
Tier1Window == Min(Len(matches), MatchWindow)

\* One pass of the idx loop: a visible and enabled element is clicked; when the
\* click returns, found = True and both loops break; anything else, a raising
\* click included, continues with the next match.
Tier1Try ==
    /\ op_pc = "tier1"
    /\ m_idx >= 1
    /\ m_idx <= Tier1Window
    /\ LET kind == matches[m_idx]
       IN  /\ acted' = IF kind \in {"clickable", "stuck"} THEN Acts(1) ELSE acted
           /\ IF kind = "clickable"
              THEN /\ found' = TRUE
                   /\ clicked' = [sel |-> sel_i, idx |-> m_idx]
                   /\ op_pc' = "tier2"
                   /\ m_idx' = m_idx
              ELSE /\ m_idx' = m_idx + 1
                   /\ UNCHANGED <<found, clicked, op_pc>>
    /\ UNCHANGED <<key_fault, debug_files, panel_wait_seconds, attempt, panel_loaded, detected_at, all_raised,
                   sel_i, matches, tabs, op_ret>>

\* The idx loop ended without a click: the next selector.
Tier1NextSelector ==
    /\ op_pc = "tier1"
    /\ m_idx > Tier1Window
    /\ sel_i' = sel_i + 1
    /\ m_idx' = 0
    /\ matches' = <<>>
    /\ UNCHANGED <<key_fault, debug_files, panel_wait_seconds, op_pc, attempt, panel_loaded, detected_at, all_raised,
                   found, clicked, acted, tabs, op_ret>>

\* The selector list is exhausted.
Tier1Exhausted ==
    /\ op_pc = "tier1"
    /\ sel_i > NumSelectors
    /\ op_pc' = "tier2"
    /\ UNCHANGED <<key_fault, debug_files, panel_wait_seconds, attempt, panel_loaded, detected_at, all_raised,
                   sel_i, matches, m_idx, found, clicked, acted, tabs, op_ret>>

Tier2_Unguarded ==
    /\ op_pc = "tier2"
    /\ \E outcome \in {"absent", "no_box", "clicked", "click_raised"} :
         /\ acted' = IF outcome \in {"clicked", "click_raised"} THEN Acts(2) ELSE acted
         /\ found' = (found \/ outcome = "clicked")
    /\ op_pc' = "tier3"
    /\ UNCHANGED <<key_fault, debug_files, panel_wait_seconds, attempt, panel_loaded, detected_at, all_raised,
                   sel_i, matches, m_idx, clicked, tabs, op_ret>>

\* Method 2: `if not found:` locate the panel container; when it is there and
\* has a bounding box, page.mouse.click at the offset inside it, then found =
\* True. A panel that is absent or has no box, or a raising call (except: pass),
\* leaves found False.
Tier2 ==
    /\ op_pc = "tier2"
    /\ IF found
       THEN UNCHANGED <<acted, found>>
       ELSE \E outcome \in {"absent", "no_box", "clicked", "click_raised"} :
              /\ acted' = IF outcome \in {"clicked", "click_raised"} THEN Acts(2) ELSE acted
              /\ found' = (outcome = "clicked")
    /\ op_pc' = "tier3"
    /\ UNCHANGED <<key_fault, debug_files, panel_wait_seconds, attempt, panel_loaded, detected_at, all_raised,
                   sel_i, matches, m_idx, clicked, tabs, op_ret>>

\* Method 3: `if not found:` keyboard navigation.
Tier3 ==
    /\ op_pc = "tier3"
    /\ op_pc' = IF found THEN "last" ELSE "keys"
    /\ UNCHANGED <<key_fault, debug_files, panel_wait_seconds, attempt, panel_loaded, detected_at, all_raised,
                   sel_i, matches, m_idx, found, clicked, acted, tabs, op_ret>>

PressKey_EnterNoSuccess ==
    /\ op_pc = "keys"
    /\ acted' = Acts(3)
    /\ \E ok \in BOOLEAN :
         IF ~ok
         THEN /\ op_pc' = "last"
              /\ key_fault' = TRUE
              /\ UNCHANGED <<tabs, found>>
         ELSE IF tabs < TabPresses
         THEN /\ tabs' = tabs + 1
              /\ UNCHANGED <<op_pc, found, key_fault>>
         ELSE /\ op_pc' = "last"
              /\ UNCHANGED <<tabs, found, key_fault>>
    /\ UNCHANGED <<debug_files, panel_wait_seconds, attempt, panel_loaded, detected_at, all_raised,
                   sel_i, matches, m_idx, clicked, op_ret>>

\* One keyboard.press: 'Tab' while fewer than five have returned, then 'Enter',
\* after which found = True. A press that raises ends the tier (except: pass).
PressKey ==
    /\ op_pc = "keys"
    /\ acted' = Acts(3)
    /\ \E ok \in BOOLEAN :
         IF ~ok
         THEN /\ op_pc' = "last"
              /\ key_fault' = TRUE
              /\ UNCHANGED <<tabs, found>>
         ELSE IF tabs < TabPresses
         THEN /\ tabs' = tabs + 1
              /\ UNCHANGED <<op_pc, found, key_fault>>
         ELSE /\ found' = TRUE
              /\ op_pc' = "last"
              /\ UNCHANGED <<tabs, key_fault>>
    /\ UNCHANGED <<debug_files, panel_wait_seconds, attempt, panel_loaded, detected_at, all_raised,
                   sel_i, matches, m_idx, clicked, op_ret>>

\* The last resort, `if not found:`: the first text holding 'suggest' or 'edit'
\* whose element can be clicked; a click that raises continues with the next
\* text, and anything raising outside is passed over.
LastResort ==
    /\ op_pc = "last"
    /\ IF found
       THEN UNCHANGED <<acted, found>>
       ELSE \E outcome \in {"no_text", "clicked", "click_raised"} :
              /\ acted' = IF outcome \in {"clicked", "click_raised"} THEN Acts(4) ELSE acted
              /\ found' = (outcome = "clicked")
    /\ op_pc' = "report"
    /\ UNCHANGED <<key_fault, debug_files, panel_wait_seconds, attempt, panel_loaded, detected_at, all_raised,
                   sel_i, matches, m_idx, clicked, tabs, op_ret>>

OpenReturn_ArtifactFailureFails ==
    /\ op_pc = "report"
    /\ op_pc' = "done"
    /\ IF found
       THEN debug_files' = debug_files /\ op_ret' = "True"
       ELSE \E ok \in BOOLEAN :
              /\ debug_files' = IF ok THEN "written" ELSE "failed"
              /\ op_ret' = IF ok THEN "True" ELSE "False"
    /\ UNCHANGED <<key_fault, panel_wait_seconds, attempt, panel_loaded, detected_at, all_raised,
                   sel_i, matches, m_idx, found, clicked, acted, tabs>>

\* `if not found:` page.screenshot, page.content and the write of the HTML file
\* are attempted inside try / except: pass, then the stage sleeps 45 seconds and
\* returns True; with found set it returns True at once.
OpenReturn ==
    /\ op_pc = "report"
    /\ op_pc' = "done"
    /\ op_ret' = "True"
    /\ IF found
       THEN debug_files' = debug_files
       ELSE \E ok \in BOOLEAN : debug_files' = IF ok THEN "written" ELSE "failed"
    /\ UNCHANGED <<key_fault, panel_wait_seconds, attempt, panel_loaded, detected_at, all_raised,
                   sel_i, matches, m_idx, found, clicked, acted, tabs>>

OpenAtRest ==
    /\ panel_wait_seconds = 0
    /\ op_pc = "idle"
    /\ attempt = 0
    /\ panel_loaded = FALSE
    /\ detected_at = 0
    /\ all_raised = TRUE
    /\ sel_i = 0
    /\ matches = <<>>
    /\ m_idx = 0
    /\ found = FALSE
    /\ clicked = NoClick
    /\ acted = <<>>
    /\ tabs = 0
    /\ op_ret = "none"
    /\ debug_files = "none"
    /\ key_fault = FALSE

NextOpen ==
    \/ PanelProbe /\ UNCHANGED nonOpenVars
    \/ PanelPollEnd /\ UNCHANGED nonOpenVars
    \/ Tier1Count /\ UNCHANGED nonOpenVars
    \/ Tier1Try /\ UNCHANGED nonOpenVars
    \/ Tier1NextSelector /\ UNCHANGED nonOpenVars
    \/ Tier1Exhausted /\ UNCHANGED nonOpenVars
    \/ Tier2 /\ UNCHANGED nonOpenVars
    \/ Tier3 /\ UNCHANGED nonOpenVars
    \/ PressKey /\ UNCHANGED nonOpenVars
    \/ LastResort /\ UNCHANGED nonOpenVars
    \/ OpenReturn /\ UNCHANGED nonOpenVars

\* ------------------------------------------------------ submit_name_change
\* Bounds of the name path: the clickable elements of the dialog, and the cap of
\* the entry listing (`Math.min(allClickable.length, 10)`, scaled down so that a
\* list can be longer than the cap), and the editable elements of the fallback.
MaxEntries == 3
EntryCap == 2
MaxInputs == 2

\* for attempt in range(20)
NameAttempts == 20
\* for _ in range(6)
ConfirmAttempts == 6

\* A clickable element as the listing script reports it: not visible; visible
\* with no text; visible with a single character; visible with longer text;
\* visible with text that contains the business name; visible with text that
\* contains 'http'.
EntryKinds == {"hidden", "empty", "glyph", "plain", "hint", "url"}
EntryLists == UNION {[1..k -> EntryKinds] : k \in 0..MaxEntries}

\* The array the listing script returns: the first entries up to the cap.
JsResult == SubSeq(clickables, 1, Min(Len(clickables), EntryCap))

\* item['visible'] and item['text'] and business_name in text_clean
ContainsHint_AnyText(kind) == kind \in {"plain", "hint"}
ContainsHint(kind) == kind = "hint"
\* item['visible'] and item['text'] and len(text_clean) > 1 and not 'http' in text_clean.lower()
MeaningfulText_AllowsGlyph(kind) == kind \in {"glyph", "plain", "hint"}
MeaningfulText(kind) == kind \in {"plain", "hint"}
\* item['visible'] and item['text']
VisibleWithText(kind) == kind \notin {"hidden", "empty"}

nameMenuLocals == <<clickables, pass_i, tried, menu_hit, clicked_menu_option, clicked_via_js,
                    menu_via, hint_entry>>
nameMenuVars == <<nameMenuLocals, nm_fault>>
nameFormVars == <<post_ok_click, name_attempt, name_found_at, filled, submit_found, submit_clicked,
                  enter, confirm_attempt, confirm_found_at, confirm_click, fb_inputs, fb_i, typed>>

\* The listing script runs in the top-level document; if it (or the locator
\* count before it) raises, the except clause of the coordinate passes is taken
\* and the selector-based approach is next.
MenuScan ==
    /\ nm_pc = "menu"
    /\ \E raises \in BOOLEAN :
         /\ nm_fault' = (nm_fault \/ raises)
         /\ IF raises
            THEN nm_pc' = "selectors" /\ pass_i' = 0
            ELSE nm_pc' = "pass1" /\ pass_i' = 1
    /\ UNCHANGED <<clickables, tried, menu_hit, clicked_menu_option, clicked_via_js, menu_via,
                   hint_entry, nameFormVars, nm_ret>>

\* First pass, one item: an entry whose text contains the business name is
\* clicked by its coordinates; when the click returns the loop breaks, when it
\* raises the loop goes on with the next item.
Pass1Step ==
    /\ nm_pc = "pass1"
    /\ pass_i <= Len(JsResult)
    /\ IF ContainsHint(JsResult[pass_i])
       THEN /\ tried' = Append(tried, pass_i)
            /\ \E ok \in BOOLEAN :
                 /\ nm_fault' = (nm_fault \/ ~ok)
                 /\ IF ok
                    THEN /\ menu_hit' = pass_i
                         /\ clicked_menu_option' = TRUE
                         /\ clicked_via_js' = TRUE
                         /\ menu_via' = "hint"
                         /\ nm_pc' = "pass2"
                         /\ pass_i' = 1
                    ELSE /\ pass_i' = pass_i + 1
                         /\ UNCHANGED <<menu_hit, clicked_menu_option, clicked_via_js, menu_via, nm_pc>>
       ELSE /\ pass_i' = pass_i + 1
            /\ UNCHANGED <<tried, menu_hit, clicked_menu_option, clicked_via_js, menu_via, nm_pc,
                           nm_fault>>
    /\ UNCHANGED <<clickables, hint_entry, nameFormVars, nm_ret>>

\* The first pass ran through the whole listing.
Pass1End ==
    /\ nm_pc = "pass1"
    /\ pass_i > Len(JsResult)
    /\ nm_pc' = "pass2"
    /\ pass_i' = 1
    /\ UNCHANGED <<clickables, tried, menu_hit, clicked_menu_option, clicked_via_js, menu_via,
                   hint_entry, nm_fault, nameFormVars, nm_ret>>

Pass2Step_Unguarded ==
    /\ nm_pc = "pass2"
    /\ IF pass_i > Len(JsResult)
       THEN /\ nm_pc' = "pass3"
            /\ UNCHANGED <<pass_i, tried, menu_hit, clicked_menu_option, clicked_via_js, menu_via,
                           nm_fault>>
       ELSE IF MeaningfulText(JsResult[pass_i])
       THEN /\ tried' = Append(tried, pass_i)
            /\ \E ok \in BOOLEAN :
                 /\ nm_fault' = (nm_fault \/ ~ok)
                 /\ IF ok
                    THEN /\ menu_hit' = pass_i
                         /\ clicked_menu_option' = TRUE
                         /\ clicked_via_js' = TRUE
                         /\ menu_via' = "text"
                         /\ nm_pc' = "pass3"
                         /\ pass_i' = pass_i
                    ELSE /\ pass_i' = pass_i + 1
                         /\ UNCHANGED <<menu_hit, clicked_menu_option, clicked_via_js, menu_via, nm_pc>>
       ELSE /\ pass_i' = pass_i + 1
            /\ UNCHANGED <<tried, menu_hit, clicked_menu_option, clicked_via_js, menu_via, nm_pc,
                           nm_fault>>
    /\ UNCHANGED <<clickables, hint_entry, nameFormVars, nm_ret>>

\* Second pass, `if not clicked_via_js:`, one item: the first entry with
\* meaningful text is clicked; break when the click returns, next item when it
\* raises. The pass is over when the listing is, or at once when the first pass
\* clicked.
Pass2Step ==
    /\ nm_pc = "pass2"
    /\ IF clicked_via_js \/ pass_i > Len(JsResult)
       THEN /\ nm_pc' = "pass3"
            /\ UNCHANGED <<pass_i, tried, menu_hit, clicked_menu_option, clicked_via_js, menu_via,
                           nm_fault>>
       ELSE IF MeaningfulText(JsResult[pass_i])
       THEN /\ tried' = Append(tried, pass_i)
            /\ \E ok \in BOOLEAN :
                 /\ nm_fault' = (nm_fault \/ ~ok)
                 /\ IF ok
                    THEN /\ menu_hit' = pass_i
                         /\ clicked_menu_option' = TRUE
                         /\ clicked_via_js' = TRUE
                         /\ menu_via' = "text"
                         /\ nm_pc' = "pass3"
                         /\ pass_i' = pass_i
                    ELSE /\ pass_i' = pass_i + 1
                         /\ UNCHANGED <<menu_hit, clicked_menu_option, clicked_via_js, menu_via, nm_pc>>
       ELSE /\ pass_i' = pass_i + 1
            /\ UNCHANGED <<tried, menu_hit, clicked_menu_option, clicked_via_js, menu_via, nm_pc,
                           nm_fault>>
    /\ UNCHANGED <<clickables, hint_entry, nameFormVars, nm_ret>>

\* The first item of the listing that is visible and has text, 0 when none.
FirstVisible ==
    LET hits == {i \in 1..Len(JsResult) : VisibleWithText(JsResult[i])}
    IN  IF hits = {} THEN 0 ELSE CHOOSE i \in hits : \A j \in hits : i <= j

\* Third pass, `if not clicked_via_js and len(js_result) > 0:` the first visible
\* item with text is clicked; a click that raises is passed over.
Pass3 ==
    /\ nm_pc = "pass3"
    /\ IF ~clicked_via_js /\ Len(JsResult) > 0 /\ FirstVisible # 0
       THEN /\ tried' = Append(tried, FirstVisible)
            /\ \E ok \in BOOLEAN :
                 /\ nm_fault' = (nm_fault \/ ~ok)
                 /\ IF ok
                    THEN /\ menu_hit' = FirstVisible
                         /\ clicked_menu_option' = TRUE
                         /\ menu_via' = "first"
                    ELSE UNCHANGED <<menu_hit, clicked_menu_option, menu_via>>
       ELSE UNCHANGED <<tried, menu_hit, clicked_menu_option, menu_via, nm_fault>>
    /\ nm_pc' = "selectors"
    /\ UNCHANGED <<clickables, pass_i, clicked_via_js, hint_entry, nameFormVars, nm_ret>>

\* `if not clicked_menu_option:` the selector-based approach: the first visible
\* match among the first five of some menu_option_selectors entry whose click
\* returns, if there is one.
MenuSelectors ==
    /\ nm_pc = "selectors"
    /\ IF clicked_menu_option
       THEN UNCHANGED <<clicked_menu_option, menu_via, nm_fault>>
       ELSE \E hit \in BOOLEAN : \E raised \in BOOLEAN :
              /\ clicked_menu_option' = hit
              /\ menu_via' = IF hit THEN "selector" ELSE menu_via
              /\ nm_fault' = (nm_fault \/ raised)
    /\ nm_pc' = "gate"
    /\ UNCHANGED <<clickables, pass_i, tried, menu_hit, clicked_via_js, hint_entry,
                   nameFormVars, nm_ret>>

\* Where the dialog has a visible entry whose text contains the business name:
\* among the entries the listing script reports, only beyond them, or nowhere.
HintEntry ==
    LET at == {i \in 1..Len(clickables) : clickables[i] = "hint"}
    IN  IF \E i \in at : i <= EntryCap THEN "listed"
        ELSE IF at # {} THEN "beyond" ELSE "none"

MenuGate_PollAnyway ==
    /\ nm_pc = "gate"
    /\ hint_entry' = HintEntry
    /\ nm_pc' = "poll"
    /\ clickables' = <<>>
    /\ tried' = <<>>
    /\ menu_hit' = 0
    /\ pass_i' = 0
    /\ UNCHANGED <<clicked_menu_option, clicked_via_js, menu_via, nm_fault, nameFormVars, nm_ret>>

\* `if clicked_menu_option:` the name-input poll; otherwise 'Menu option not
\* found', sleep(2), return True. The menu listing, and what was tried on it,
\* is not used past this point: the click on an entry replaced the menu.
MenuGate ==
    /\ nm_pc = "gate"
    /\ hint_entry' = HintEntry
    /\ IF clicked_menu_option
       THEN /\ nm_pc' = "poll"
            /\ nm_ret' = nm_ret
            /\ clickables' = <<>>
            /\ tried' = <<>>
            /\ menu_hit' = 0
            /\ pass_i' = 0
       ELSE /\ nm_pc' = "done"
            /\ nm_ret' = "True"
            /\ UNCHANGED <<clickables, tried, menu_hit, pass_i>>
    /\ UNCHANGED <<clicked_menu_option, clicked_via_js, menu_via, nm_fault, nameFormVars>>

NamePoll_NoReturn ==
    /\ nm_pc = "poll"
    /\ name_attempt < NameAttempts
    /\ name_attempt' = name_attempt + 1
    /\ \E hit \in BOOLEAN :
         name_found_at' = IF hit /\ name_found_at = 0 THEN name_attempt + 1 ELSE name_found_at
    /\ UNCHANGED <<nameMenuVars, post_ok_click, filled, submit_found, submit_clicked, enter,
                   confirm_attempt, confirm_found_at, confirm_click, fb_inputs, fb_i, typed,
                   nm_pc, nm_ret>>

\* One pass of the name-input poll: sleep(1), then the place-name script through
\* _evaluate_in_all_frames; a target ends the poll (every path below returns).
NamePoll ==
    /\ nm_pc = "poll"
    /\ name_attempt < NameAttempts
    /\ name_attempt' = name_attempt + 1
    /\ \E hit \in BOOLEAN :
         IF hit
         THEN name_found_at' = name_attempt + 1 /\ nm_pc' = "field_click"
         ELSE UNCHANGED <<name_found_at, nm_pc>>
    /\ UNCHANGED <<nameMenuVars, post_ok_click, filled, submit_found, submit_clicked, enter,
                   confirm_attempt, confirm_found_at, confirm_click, fb_inputs, fb_i, typed, nm_ret>>

\* The 20 passes found nothing: the editable-element fallback is next.
NamePollEnd ==
    /\ nm_pc = "poll"
    /\ name_attempt = NameAttempts
    /\ nm_pc' = "fallback"
    /\ UNCHANGED <<nameMenuVars, nameFormVars, nm_ret>>

\* _click_xy_in_frame on the resolved input: it returns, or the click raises and
\* the exception reaches the except clause of submit_name_change (return False).
FieldClick ==
    /\ nm_pc = "field_click"
    /\ \E ok \in BOOLEAN :
         /\ nm_fault' = (nm_fault \/ ~ok)
         /\ IF ok
            THEN nm_pc' = "typing" /\ nm_ret' = nm_ret
            ELSE nm_pc' = "done" /\ nm_ret' = "False"
    /\ UNCHANGED <<nameMenuLocals, nameFormVars>>

\* keyboard.press('Control+a'); keyboard.type(new_name): outside any inner try.
TypeName ==
    /\ nm_pc = "typing"
    /\ \E ok \in BOOLEAN :
         /\ nm_fault' = (nm_fault \/ ~ok)
         /\ IF ok
            THEN nm_pc' = "submit_resolve" /\ filled' = TRUE /\ nm_ret' = nm_ret
            ELSE nm_pc' = "done" /\ nm_ret' = "False" /\ filled' = filled
    /\ UNCHANGED <<nameMenuLocals, post_ok_click, name_attempt, name_found_at, submit_found,
                   submit_clicked, enter, confirm_attempt, confirm_found_at, confirm_click,
                   fb_inputs, fb_i, typed>>

\* The submit script through _evaluate_in_all_frames: a target or None.
SubmitResolve ==
    /\ nm_pc = "submit_resolve"
    /\ \E hit \in BOOLEAN :
         /\ submit_found' = IF hit THEN "yes" ELSE "no"
         /\ nm_pc' = IF hit THEN "submit_click" ELSE "enter"
    /\ UNCHANGED <<nameMenuVars, post_ok_click, name_attempt, name_found_at, filled,
                   submit_clicked, enter, confirm_attempt, confirm_found_at, confirm_click,
                   fb_inputs, fb_i, typed, nm_ret>>

\* _click_xy_in_frame on the submit target. When it returns: `if
\* self.post_ok_click:` the confirmation poll, else return True. When the click
\* raises, the except clause of submit_name_change returns False.
SubmitClick ==
    /\ nm_pc = "submit_click"
    /\ \E ok \in BOOLEAN :
         /\ nm_fault' = (nm_fault \/ ~ok)
         /\ IF ok
            THEN /\ submit_clicked' = TRUE
                 /\ nm_pc' = IF post_ok_click THEN "confirm" ELSE "done"
                 /\ nm_ret' = IF post_ok_click THEN nm_ret ELSE "True"
            ELSE /\ nm_pc' = "done"
                 /\ nm_ret' = "False"
                 /\ submit_clicked' = submit_clicked
    /\ UNCHANGED <<nameMenuLocals, post_ok_click, name_attempt, name_found_at, filled, submit_found,
                   enter, confirm_attempt, confirm_found_at, confirm_click, fb_inputs, fb_i, typed>>

ConfirmPoll_RaiseFails ==
    /\ nm_pc = "confirm"
    /\ confirm_attempt < ConfirmAttempts
    /\ confirm_attempt' = confirm_attempt + 1
    /\ \E outcome \in {"none", "clicked", "click_raised"} :
         /\ confirm_found_at' = IF outcome = "none" THEN confirm_found_at ELSE confirm_attempt + 1
         /\ confirm_click' = CASE outcome = "clicked" -> "clicked"
                               [] outcome = "click_raised" -> "raised"
                               [] OTHER -> confirm_click
         /\ nm_pc' = IF outcome = "none" THEN nm_pc ELSE "done"
         /\ nm_ret' = CASE outcome = "clicked" -> "True"
                        [] outcome = "click_raised" -> "False"
                        [] OTHER -> nm_ret
         /\ nm_fault' = (nm_fault \/ outcome = "click_raised")
    /\ UNCHANGED <<nameMenuLocals, post_ok_click, name_attempt, name_found_at, filled, submit_found,
                   submit_clicked, enter, fb_inputs, fb_i, typed>>

ConfirmPoll_NoBreak ==
    /\ nm_pc = "confirm"
    /\ confirm_attempt < ConfirmAttempts
    /\ confirm_attempt' = confirm_attempt + 1
    /\ \E outcome \in {"none", "clicked", "click_raised"} :
         /\ confirm_found_at' = IF outcome = "none" THEN confirm_found_at ELSE confirm_attempt + 1
         /\ confirm_click' = CASE outcome = "clicked" -> "clicked"
                               [] outcome = "click_raised" -> "raised"
                               [] OTHER -> confirm_click
         /\ nm_pc' = IF outcome = "click_raised" THEN "done" ELSE nm_pc
         /\ nm_ret' = IF outcome = "click_raised" THEN "True" ELSE nm_ret
         /\ nm_fault' = (nm_fault \/ outcome = "click_raised")
    /\ UNCHANGED <<nameMenuLocals, post_ok_click, name_attempt, name_found_at, filled, submit_found,
                   submit_clicked, enter, fb_inputs, fb_i, typed>>

\* One pass of the confirmation poll: the confirmation script through
\* _evaluate_in_all_frames (a fault in a document is a miss there); a target is
\* clicked with _click_xy_in_frame and the loop breaks; a click that raises is
\* taken by `except Exception: pass`; a miss sleeps 0.5 s. Then 'Submitted
\* successfully!', return True.
ConfirmPoll ==
    /\ nm_pc = "confirm"
    /\ confirm_attempt < ConfirmAttempts
    /\ confirm_attempt' = confirm_attempt + 1
    /\ \E outcome \in {"none", "clicked", "click_raised"} :
         /\ confirm_found_at' = IF outcome = "none" THEN confirm_found_at ELSE confirm_attempt + 1
         /\ confirm_click' = CASE outcome = "clicked" -> "clicked"
                               [] outcome = "click_raised" -> "raised"
                               [] OTHER -> confirm_click
         /\ nm_pc' = IF outcome = "none" THEN nm_pc ELSE "done"
         /\ nm_ret' = IF outcome = "none" THEN nm_ret ELSE "True"
         /\ nm_fault' = (nm_fault \/ outcome = "click_raised")
    /\ UNCHANGED <<nameMenuLocals, post_ok_click, name_attempt, name_found_at, filled, submit_found,
                   submit_clicked, enter, fb_inputs, fb_i, typed>>

\* Six passes found no confirmation control: return True.
ConfirmPollEnd ==
    /\ nm_pc = "confirm"
    /\ confirm_attempt = ConfirmAttempts
    /\ nm_pc' = "done"
    /\ nm_ret' = "True"
    /\ UNCHANGED <<nameMenuVars, nameFormVars>>

EnterFallback_RaiseFails ==
    /\ nm_pc = "enter"
    /\ \E ok \in BOOLEAN :
         /\ enter' = IF ok THEN "pressed" ELSE "raised"
         /\ nm_ret' = IF ok THEN "True" ELSE "False"
         /\ nm_fault' = (nm_fault \/ ~ok)
    /\ nm_pc' = "done"
    /\ UNCHANGED <<nameMenuLocals, post_ok_click, name_attempt, name_found_at, filled, submit_found,
                   submit_clicked, confirm_attempt, confirm_found_at, confirm_click,
                   fb_inputs, fb_i, typed>>

\* No submit target: keyboard.press('Enter'), return True; when the press raises
\* (except: pass), 'Submit button not found' and return True as well.
EnterFallback ==
    /\ nm_pc = "enter"
    /\ \E ok \in BOOLEAN :
         /\ enter' = IF ok THEN "pressed" ELSE "raised"
         /\ nm_fault' = (nm_fault \/ ~ok)
    /\ nm_pc' = "done"
    /\ nm_ret' = "True"
    /\ UNCHANGED <<nameMenuLocals, post_ok_click, name_attempt, name_found_at, filled, submit_found,
                   submit_clicked, confirm_attempt, confirm_found_at, confirm_click,
                   fb_inputs, fb_i, typed>>

\* The fallback scan for any visible editable element that is not a search box.
\* It raises (return False from the except clause), or returns no element
\* (screenshot, return False), or returns some.
FallbackScan ==
    /\ nm_pc = "fallback"
    /\ \E raises \in BOOLEAN : \E n \in 0..MaxInputs :
         /\ nm_fault' = (nm_fault \/ raises)
         /\ IF raises \/ n = 0
            THEN /\ nm_pc' = "done"
                 /\ nm_ret' = "False"
                 /\ UNCHANGED <<fb_inputs, fb_i>>
            ELSE /\ fb_inputs' = n
                 /\ fb_i' = 1
                 /\ nm_pc' = "fb_input"
                 /\ nm_ret' = nm_ret
    /\ UNCHANGED <<nameMenuLocals, post_ok_click, name_attempt, name_found_at, filled, submit_found,
                   submit_clicked, enter, confirm_attempt, confirm_found_at, confirm_click, typed>>

\* One fallback input: click, select all, type, resolve a submit control in the
\* top-level document, click it, return True. Anything that raises on the way,
\* the subscript of a None submit result included, is taken by the except clause
\* of the loop body, which continues with the next input.
FallbackInput ==
    /\ nm_pc = "fb_input"
    /\ fb_i <= fb_inputs
    /\ \E outcome \in {"click_raised", "type_raised", "submit_none", "submit_click_raised",
                       "submit_clicked"} :
         /\ typed' = IF outcome \in {"click_raised", "type_raised"} THEN typed ELSE typed + 1
         /\ nm_fault' = (nm_fault \/ outcome \in {"click_raised", "type_raised", "submit_click_raised"})
         /\ IF outcome = "submit_clicked"
            THEN /\ submit_clicked' = TRUE
                 /\ nm_pc' = "done"
                 /\ nm_ret' = "True"
                 /\ fb_i' = fb_i
            ELSE /\ fb_i' = fb_i + 1
                 /\ UNCHANGED <<submit_clicked, nm_pc, nm_ret>>
    /\ UNCHANGED <<nameMenuLocals, post_ok_click, name_attempt, name_found_at, filled, submit_found,
                   enter, confirm_attempt, confirm_found_at, confirm_click, fb_inputs>>

\* Every fallback input failed: the loop ends, sleep(2), return True.
FallbackEnd ==
    /\ nm_pc = "fb_input"
    /\ fb_i > fb_inputs
    /\ nm_pc' = "done"
    /\ nm_ret' = "True"
    /\ UNCHANGED <<nameMenuVars, nameFormVars>>

NameAtRest ==
    /\ post_ok_click = TRUE
    /\ nm_pc = "idle"
    /\ clickables = <<>>
    /\ pass_i = 0
    /\ tried = <<>>
    /\ menu_hit = 0
    /\ clicked_menu_option = FALSE
    /\ clicked_via_js = FALSE
    /\ menu_via = "none"
    /\ hint_entry = "none"
    /\ nm_fault = FALSE
    /\ name_attempt = 0
    /\ name_found_at = 0
    /\ filled = FALSE
    /\ submit_found = "unknown"
    /\ submit_clicked = FALSE
    /\ enter = "none"
    /\ confirm_attempt = 0
    /\ confirm_found_at = 0
    /\ confirm_click = "none"
    /\ fb_inputs = 0
    /\ fb_i = 0
    /\ typed = 0
    /\ nm_ret = "none"

NextName ==
    \/ MenuScan /\ UNCHANGED nonNameVars
    \/ Pass1Step /\ UNCHANGED nonNameVars
    \/ Pass1End /\ UNCHANGED nonNameVars
    \/ Pass2Step /\ UNCHANGED nonNameVars
    \/ Pass3 /\ UNCHANGED nonNameVars
    \/ MenuSelectors /\ UNCHANGED nonNameVars
    \/ MenuGate /\ UNCHANGED nonNameVars
    \/ NamePoll /\ UNCHANGED nonNameVars
    \/ NamePollEnd /\ UNCHANGED nonNameVars
    \/ FieldClick /\ UNCHANGED nonNameVars
    \/ TypeName /\ UNCHANGED nonNameVars
    \/ SubmitResolve /\ UNCHANGED nonNameVars
    \/ SubmitClick /\ UNCHANGED nonNameVars
    \/ ConfirmPoll /\ UNCHANGED nonNameVars
    \/ ConfirmPollEnd /\ UNCHANGED nonNameVars
    \/ EnterFallback /\ UNCHANGED nonNameVars
    \/ FallbackScan /\ UNCHANGED nonNameVars
    \/ FallbackInput /\ UNCHANGED nonNameVars
    \/ FallbackEnd /\ UNCHANGED nonNameVars

\* -------------------------------------------------------- search_location
\* The length of the list `selectors` of search_location.
SearchSelectors == 5

\* One pass of `for selector in selectors`: search_box is bound to the locator
\* of this selector; when count() > 0 and wait_for(state="visible") returns the
\* loop breaks; a count of 0 goes on to the next selector, and so does count()
\* or wait_for raising (except: continue).
SearchProbe ==
    /\ sr_pc = "selectors"
    /\ sr_i <= SearchSelectors
    /\ search_box' = sr_i
    /\ \E outcome \in {"absent", "visible", "raised"} :
         IF outcome = "visible"
         THEN sr_pc' = "check" /\ sr_i' = sr_i
         ELSE sr_pc' = sr_pc /\ sr_i' = sr_i + 1
    /\ UNCHANGED <<sr_via, sr_ret>>

\* The selector list is exhausted; search_box stays bound to the last locator.
SearchLoopEnd ==
    /\ sr_pc = "selectors"
    /\ sr_i > SearchSelectors
    /\ sr_pc' = "check"
    /\ UNCHANGED <<sr_i, search_box, sr_via, sr_ret>>

\* `if not search_box or await search_box.count() == 0:` the count() is outside
\* any inner try; when it raises, the except clause of search_location returns
\* False.
SearchCheck ==
    /\ sr_pc = "check"
    /\ \E outcome \in {"none", "some", "raised"} :
         /\ sr_pc' = CASE outcome = "none" -> "keyboard"
                       [] outcome = "some" -> "fill"
                       [] OTHER -> "done"
         /\ sr_ret' = IF outcome = "raised" THEN "False" ELSE sr_ret
    /\ UNCHANGED <<sr_i, search_box, sr_via>>

\* keyboard.type(query); keyboard.press('Enter'); sleep; return True. A raising
\* call is taken by the except clause of search_location: return False.
SearchKeyboard ==
    /\ sr_pc = "keyboard"
    /\ \E ok \in BOOLEAN :
         /\ sr_via' = IF ok THEN "keyboard" ELSE sr_via
         /\ sr_ret' = IF ok THEN "True" ELSE "False"
    /\ sr_pc' = "done"
    /\ UNCHANGED <<sr_i, search_box>>

SearchFill_Escapes ==
    /\ sr_pc = "fill"
    /\ \E ok \in BOOLEAN :
         /\ sr_via' = IF ok THEN "fill" ELSE sr_via
         /\ sr_ret' = IF ok THEN "True" ELSE "raised"
    /\ sr_pc' = "done"
    /\ UNCHANGED <<sr_i, search_box>>

\* search_box.fill(query); search_box.press('Enter'); sleep; return True, or
\* return False from the except clause when a call raises.
SearchFill ==
    /\ sr_pc = "fill"
    /\ \E ok \in BOOLEAN :
         /\ sr_via' = IF ok THEN "fill" ELSE sr_via
         /\ sr_ret' = IF ok THEN "True" ELSE "False"
    /\ sr_pc' = "done"
    /\ UNCHANGED <<sr_i, search_box>>

SearchAtRest ==
    /\ sr_pc = "idle"
    /\ sr_i = 0
    /\ search_box = 0
    /\ sr_via = "none"
    /\ sr_ret = "none"

SearchStep ==
    \/ SearchProbe
    \/ SearchLoopEnd
    \/ SearchCheck
    \/ SearchKeyboard
    \/ SearchFill

\* ---------------------------------------------------- submit_address_change
\* The lengths of menu_option_selectors, address_input_selectors and
\* submit_selectors of submit_address_change.
AddrMenuSelectors == 9
AddrInputSelectors == 6
AddrSubmitSelectors == 6

\* One pass of the menu loop: the first match of the selector is clicked when it
\* is there and visible; when the click returns, clicked_menu_option = True and
\* the loop breaks; anything raising continues with the next selector.
AddrMenuTry ==
    /\ ad_pc = "menu"
    /\ ad_i <= AddrMenuSelectors
    /\ \E outcome \in {"miss", "raised", "clicked"} :
         IF outcome = "clicked"
         THEN /\ ad_menu' = TRUE
              /\ ad_flag' = TRUE
              /\ ad_pc' = "input"
              /\ ad_i' = 1
         ELSE /\ ad_i' = ad_i + 1
              /\ UNCHANGED <<ad_menu, ad_flag, ad_pc>>
    /\ UNCHANGED <<ad_filled, submitted, ad_ret>>

AddrMenuEnd ==
    /\ ad_pc = "menu"
    /\ ad_i > AddrMenuSelectors
    /\ ad_pc' = "input"
    /\ ad_i' = 1
    /\ UNCHANGED <<ad_menu, ad_filled, ad_flag, submitted, ad_ret>>

\* `if not clicked_menu_option:` one pass of the direct address-input loop: the
\* first match of the selector, when there and visible, is clicked, cleared and
\* filled with new_address, then clicked_menu_option = True and the loop breaks;
\* anything raising continues with the next selector. With clicked_menu_option
\* set by the menu loop the whole block is skipped.
AddrInputTry ==
    /\ ad_pc = "input"
    /\ IF ad_flag
       THEN /\ ad_pc' = "submit"
            /\ ad_i' = 1
            /\ UNCHANGED <<ad_filled, ad_flag>>
       ELSE /\ ad_i <= AddrInputSelectors
            /\ \E outcome \in {"miss", "raised", "filled"} :
                 IF outcome = "filled"
                 THEN /\ ad_filled' = TRUE
                      /\ ad_flag' = TRUE
                      /\ ad_pc' = "submit"
                      /\ ad_i' = 1
                 ELSE /\ ad_i' = ad_i + 1
                      /\ UNCHANGED <<ad_filled, ad_flag, ad_pc>>
    /\ UNCHANGED <<ad_menu, submitted, ad_ret>>

\* The input selectors are exhausted: the warning, then step 2 all the same.
AddrInputEnd ==
    /\ ad_pc = "input"
    /\ ~ad_flag
    /\ ad_i > AddrInputSelectors
    /\ ad_pc' = "submit"
    /\ ad_i' = 1
    /\ UNCHANGED <<ad_menu, ad_filled, ad_flag, submitted, ad_ret>>

\* One pass of the submit loop: the first match of the selector is clicked when
\* it is there and visible; when the click returns, submitted = True, break,
\* return True; anything raising continues with the next selector.
AddrSubmitTry ==
    /\ ad_pc = "submit"
    /\ ad_i <= AddrSubmitSelectors
    /\ \E outcome \in {"miss", "raised", "clicked"} :
         IF outcome = "clicked"
         THEN /\ submitted' = TRUE
              /\ ad_pc' = "done"
              /\ ad_ret' = "True"
              /\ ad_i' = ad_i
         ELSE /\ ad_i' = ad_i + 1
              /\ UNCHANGED <<submitted, ad_pc, ad_ret>>
    /\ UNCHANGED <<ad_menu, ad_filled, ad_flag>>

\* No submit control was clicked: the warning, sleep(5), return True.
AddrSubmitEnd ==
    /\ ad_pc = "submit"
    /\ ad_i > AddrSubmitSelectors
    /\ ad_pc' = "done"
    /\ ad_ret' = "True"
    /\ UNCHANGED <<ad_i, ad_menu, ad_filled, ad_flag, submitted>>

AddrAtRest ==
    /\ ad_pc = "idle"
    /\ ad_i = 0
    /\ ad_menu = FALSE
    /\ ad_filled = FALSE
    /\ ad_flag = FALSE
    /\ submitted = FALSE
    /\ ad_ret = "none"

AddrStep ==
    \/ AddrMenuTry
    \/ AddrMenuEnd
    \/ AddrInputTry
    \/ AddrInputEnd
    \/ AddrSubmitTry
    \/ AddrSubmitEnd

\* ------------------------------------------------------------- main_async
Stages == <<"search", "open", "name", "address">>
StageSet == {Stages[k] : k \in 1..Len(Stages)}
NotReturned == [st \in StageSet |-> "none"]

\* The positions of main_async inside its try block.
TryBody == {"construct", "init", "goto", "signin", "search", "open", "name", "address", "linger"}

mainCallVars == <<name, address, signin_time, bot, cl_calls, cl_step, cl_raised>>

\* bot = GoogleMapsEditBot(...) and its settings.
Construct ==
    /\ m_pc = "construct"
    /\ bot' = TRUE
    /\ m_pc' = "init"
    /\ UNCHANGED <<name, address, signin_time, running, entered, returned, pending, m_exit,
                   cl_calls, cl_step, cl_raised>>

\* await bot._init_browser(), then await bot.page.goto(...): either may raise,
\* which the `except Exception` clause of main_async takes.
Setup ==
    /\ m_pc \in {"init", "goto"}
    /\ \E ok \in BOOLEAN :
         IF ok
         THEN /\ m_pc' = IF m_pc = "init" THEN "goto" ELSE "signin"
              /\ pending' = pending
         ELSE /\ m_pc' = "except"
              /\ pending' = "error"
    /\ UNCHANGED <<mainCallVars, running, entered, returned, m_exit>>

\* signin_time > 0: check_and_wait_for_signin, whose result is not used;
\* otherwise check_if_signed_in, and `return` when it is False. Neither raises.
SignIn ==
    /\ m_pc = "signin"
    /\ IF signin_time > 0
       THEN m_pc' = "search" /\ m_exit' = m_exit
       ELSE \E signed_in \in BOOLEAN :
              IF signed_in
              THEN m_pc' = "search" /\ m_exit' = m_exit
              ELSE m_pc' = "finally" /\ m_exit' = "not_signed_in"
    /\ UNCHANGED <<mainCallVars, running, entered, returned, pending>>

\* await bot.search_location(search, wait) is entered.
EnterSearch ==
    /\ m_pc = "search"
    /\ running = "none"
    /\ running' = "search"
    /\ entered' = Append(entered, "search")
    /\ sr_pc' = "selectors"
    /\ sr_i' = 1
    /\ UNCHANGED <<mainCallVars, m_pc, returned, pending, m_exit, search_box, sr_via, sr_ret>>

ReturnSearch_Continue ==
    /\ m_pc = "search"
    /\ running = "search"
    /\ sr_pc = "done"
    /\ running' = "none"
    /\ returned' = [returned EXCEPT !["search"] = sr_ret]
    /\ m_pc' = "open"
    /\ UNCHANGED <<mainCallVars, entered, pending, m_exit>>

\* `if not await bot.search_location(search, wait): ... return`
ReturnSearch ==
    /\ m_pc = "search"
    /\ running = "search"
    /\ sr_pc = "done"
    /\ running' = "none"
    /\ returned' = [returned EXCEPT !["search"] = sr_ret]
    /\ IF sr_ret = "True"
       THEN m_pc' = "open" /\ m_exit' = m_exit
       ELSE m_pc' = "finally" /\ m_exit' = "search_failed"
    /\ UNCHANGED <<mainCallVars, entered, pending>>

\* await bot.open_suggest_edit() is entered.
EnterOpen ==
    /\ m_pc = "open"
    /\ running = "none"
    /\ running' = "open"
    /\ entered' = Append(entered, "open")
    /\ UNCHANGED <<mainCallVars, m_pc, returned, pending, m_exit>>

\* open_suggest_edit returns; its result is not looked at.
ReturnOpen ==
    /\ m_pc = "open"
    /\ running = "open"
    /\ \E r \in {"True", "False"} : returned' = [returned EXCEPT !["open"] = r]
    /\ running' = "none"
    /\ m_pc' = "name"
    /\ UNCHANGED <<mainCallVars, entered, pending, m_exit>>

\* `if name: await bot.submit_name_change(name)`
EnterName ==
    /\ m_pc = "name"
    /\ running = "none"
    /\ IF name
       THEN /\ running' = "name"
            /\ entered' = Append(entered, "name")
            /\ m_pc' = m_pc
       ELSE /\ m_pc' = "address"
            /\ UNCHANGED <<running, entered>>
    /\ UNCHANGED <<mainCallVars, returned, pending, m_exit, ad_pc, ad_i>>

ReturnName_BackToOpen ==
    /\ m_pc = "name"
    /\ running = "name"
    /\ \E r \in {"True", "False"} : returned' = [returned EXCEPT !["name"] = r]
    /\ running' = "none"
    /\ m_pc' = IF returned["name"] = "none" THEN "open" ELSE "address"
    /\ UNCHANGED <<mainCallVars, entered, pending, m_exit>>

\* submit_name_change returns; its result is not looked at.
ReturnName ==
    /\ m_pc = "name"
    /\ running = "name"
    /\ \E r \in {"True", "False"} : returned' = [returned EXCEPT !["name"] = r]
    /\ running' = "none"
    /\ m_pc' = "address"
    /\ UNCHANGED <<mainCallVars, entered, pending, m_exit>>

\* `if address:` (after sleep(2) when a name was given) await
\* bot.submit_address_change(address)
EnterAddress ==
    /\ m_pc = "address"
    /\ running = "none"
    /\ IF address
       THEN /\ running' = "address"
            /\ entered' = Append(entered, "address")
            /\ ad_pc' = "menu"
            /\ ad_i' = 1
            /\ m_pc' = m_pc
       ELSE /\ m_pc' = "linger"
            /\ UNCHANGED <<running, entered, ad_pc, ad_i>>
    /\ UNCHANGED <<mainCallVars, returned, pending, m_exit>>

\* submit_address_change returns; its result is not looked at.
ReturnAddress ==
    /\ m_pc = "address"
    /\ running = "address"
    /\ ad_pc = "done"
    /\ returned' = [returned EXCEPT !["address"] = ad_ret]
    /\ running' = "none"
    /\ m_pc' = "linger"
    /\ UNCHANGED <<mainCallVars, entered, pending, m_exit>>

\* The closing messages and sleep(30); the try block ends.
Linger ==
    /\ m_pc = "linger"
    /\ m_pc' = "finally"
    /\ m_exit' = "normal"
    /\ UNCHANGED <<mainCallVars, running, entered, returned, pending>>

\* The task is cancelled, or KeyboardInterrupt is raised in it, at any point of
\* the try block, inside a stage operation included: neither is an Exception,
\* so no handler below main_async takes it.
Interrupt ==
    /\ m_pc \in TryBody
    /\ \E kind \in {"cancelled", "keyboard"} : pending' = kind
    /\ m_pc' = "except"
    /\ UNCHANGED <<mainCallVars, running, entered, returned, m_exit>>

Handle_CancelSkipsFinally ==
    /\ m_pc = "except"
    /\ m_exit' = CASE pending = "cancelled" -> "cancelled"
                   [] pending = "keyboard" -> "interrupted"
                   [] OTHER -> "error"
    /\ m_pc' = IF pending = "cancelled" THEN "exited" ELSE "finally"
    /\ pending' = "none"
    /\ UNCHANGED <<mainCallVars, running, entered, returned>>

\* except asyncio.CancelledError: return; except KeyboardInterrupt; except
\* Exception: each prints and leaves through the finally clause.
Handle ==
    /\ m_pc = "except"
    /\ m_exit' = CASE pending = "cancelled" -> "cancelled"
                   [] pending = "keyboard" -> "interrupted"
                   [] OTHER -> "error"
    /\ m_pc' = "finally"
    /\ pending' = "none"
    /\ UNCHANGED <<mainCallVars, running, entered, returned>>

\* finally: if bot: await bot.close()
Finally ==
    /\ m_pc = "finally"
    /\ IF bot
       THEN /\ m_pc' = "closing"
            /\ cl_calls' = cl_calls + 1
            /\ cl_step' = "context"
       ELSE /\ m_pc' = "exited"
            /\ UNCHANGED <<cl_calls, cl_step>>
    /\ UNCHANGED <<name, address, signin_time, bot, cl_raised, running, entered, returned,
                   pending, m_exit>>

\* What an awaited driver call inside close() can do: return, raise an
\* Exception, or be hit by a cancellation or KeyboardInterrupt.
CloseOutcomes == {"returned", "raised", "interrupted"}

\* close(): `await self.context.close()` inside try / except: pass. The bare
\* except takes every exception, CancelledError and KeyboardInterrupt included.
CloseContext ==
    /\ m_pc = "closing"
    /\ cl_step = "context"
    /\ \E outcome \in CloseOutcomes : cl_step' = "playwright"
    /\ UNCHANGED <<name, address, signin_time, bot, cl_calls, cl_raised, m_pc, running, entered,
                   returned, pending, m_exit>>

\* close(): `await self.playwright.stop()` inside try / except: pass; close()
\* returns and main_async is left.
ClosePlaywright ==
    /\ m_pc = "closing"
    /\ cl_step = "playwright"
    /\ \E outcome \in CloseOutcomes : cl_step' = "returned"
    /\ m_pc' = "exited"
    /\ UNCHANGED <<name, address, signin_time, bot, cl_calls, cl_raised, running, entered,
                   returned, pending, m_exit>>

MainAtRest ==
    /\ name = FALSE
    /\ address = FALSE
    /\ signin_time = 0
    /\ m_pc = "idle"
    /\ bot = FALSE
    /\ running = "none"
    /\ entered = <<>>
    /\ returned = NotReturned
    /\ pending = "none"
    /\ m_exit = "none"
    /\ cl_calls = 0
    /\ cl_step = "idle"
    /\ cl_raised = FALSE

\* ---------------------------------------------------------- user_data_dir
\* Bounds of the session model: the half seconds of wall-clock time that pass,
\* the runs that start, and the clock readings per second.
MaxClock == 4
MaxRuns == 3
TicksPerSecond == 2

\* user_data_dir = f"./browser_data_{int(time.time())}" if new_session else
\* "./browser_data"; stamp is -1 where the name has none.
UserDataDir(new_session, t) ==
    IF new_session
    THEN [base |-> "./browser_data_", stamp |-> t \div TicksPerSecond]
    ELSE [base |-> "./browser_data", stamp |-> -1]

\* Wall-clock time passes.
Tick ==
    /\ now < MaxClock
    /\ now' = now + 1
    /\ UNCHANGED sessions

\* A run of main_async picks its profile directory; _init_browser then calls
\* os.makedirs(self.user_data_dir, exist_ok=True), which accepts a directory
\* that is already there, and launches the persistent context on it.
StartRun ==
    /\ Len(sessions) < MaxRuns
    /\ \E new_session \in BOOLEAN :
         sessions' = Append(sessions, [at |-> now, new_session |-> new_session,
                                       dir |-> UserDataDir(new_session, now)])
    /\ UNCHANGED now

SessionAtRest ==
    /\ now = 0
    /\ sessions = <<>>

RunAtRest == SearchAtRest /\ AddrAtRest /\ MainAtRest /\ SessionAtRest

\* ------------------------------------------------------------- SpecClick
ClickAtRest ==
    /\ parent = [d \in SubDocs |-> Main]
    /\ xorigin = [d \in SubDocs |-> FALSE]
    /\ flag = [d \in AttachedDocs |-> FALSE]
    /\ click_delay = 1
    /\ cl_pc = "idle"
    /\ cl_prim = "none"
    /\ cl_value = FALSE
    /\ cl_i = 0
    /\ cl_fault = FALSE
    /\ scriptOk = [d \in AttachedDocs |-> FALSE]
    /\ proto = <<>>
    /\ lastEvent = NoEvent

EvalAtRest ==
    /\ dom = <<>>
    /\ throws = [d \in AttachedDocs |-> FALSE]
    /\ query = "probe"
    /\ raw = [d \in AttachedDocs |-> "null"]
    /\ text = <<>>
    /\ fe_pc = "idle"
    /\ fe_i = 0
    /\ fe_ret = NoneNone

\* Every nesting of the sub-documents 1..n: each embedded in the top-level
\* document or in a sub-document registered before it.
Nestings(n) == {p \in [1..n -> 0..n] : \A d \in 1..n : p[d] < d}

InitClick ==
    /\ \E n \in 0..MaxFrames :
         /\ frames = [i \in 1..(n + 1) |-> i - 1]
         /\ parent \in Nestings(n)
         /\ xorigin \in [1..n -> BOOLEAN]
    /\ flag = [d \in AttachedDocs |-> FALSE]
    /\ click_delay \in {0, 1}
    /\ cl_pc = "idle"
    /\ cl_prim = "none"
    /\ cl_value = FALSE
    /\ cl_i = 0
    /\ cl_fault = FALSE
    /\ scriptOk = [d \in AttachedDocs |-> FALSE]
    /\ proto = <<>>
    /\ lastEvent = NoEvent
    /\ EvalAtRest
    /\ OpenAtRest
    /\ NameAtRest
    /\ RunAtRest

NextClick ==
    \/ \E site \in ClickSites : StartClick(site) /\ UNCHANGED nonClickVars
    \/ FlagPage /\ UNCHANGED nonClickVars
    \/ FlagFrame /\ UNCHANGED nonClickVars
    \/ ClickBegin /\ UNCHANGED nonClickVars
    \/ \E d \in AttachedDocs : ClickFire(d) /\ UNCHANGED nonClickVars
    \/ ClickReturn /\ UNCHANGED nonClickVars
    \/ ClickRaise /\ UNCHANGED nonClickVars
    \/ Delay /\ UNCHANGED nonClickVars
    \/ Finish /\ UNCHANGED nonClickVars
    \/ \E d \in AttachedDocs : DirectClick(d) /\ UNCHANGED nonClickVars
    \/ DirectRaise /\ UNCHANGED nonClickVars
    \/ \E d \in AttachedDocs : HumanClick(d) /\ UNCHANGED nonClickVars
    \/ \E d \in AttachedDocs : SyntheticClick(d) /\ UNCHANGED nonClickVars
    \/ \E d \in AttachedDocs : Reload(d) /\ UNCHANGED nonClickVars

SpecClick == InitClick /\ [][NextClick]_vars

\* ------------------------------------------------------------ SpecEval
Elem(n) == [doc : 0..n, sel : 0..NumCandidates, vis : BOOLEAN]

\* Every tree of at most MaxElems elements over the documents 0..n.
DomTrees(n) ==
    {s \in UNION {[1..k -> Elem(n)] : k \in 0..MaxElems} :
        \A i \in 1..(Len(s) - 1) : s[i].doc <= s[i + 1].doc}

InitEval ==
    /\ \E n \in 0..MaxFrames :
         /\ frames = [i \in 1..(n + 1) |-> i - 1]
         /\ throws \in [0..n -> BOOLEAN]
         /\ \/ /\ query = "place_name"
               /\ dom \in DomTrees(n)
               /\ raw = [d \in 0..n |-> "null"]
            \/ /\ query = "probe"
               /\ dom = <<>>
               /\ raw \in [0..n -> {"null", "empty", "value"}]
    /\ fe_pc = "main"
    /\ fe_i = 0
    /\ fe_ret = NoneNone
    /\ text = [i \in 1..Len(dom) |-> "other"]
    /\ ClickAtRest
    /\ OpenAtRest
    /\ NameAtRest
    /\ RunAtRest

NextEval ==
    \/ EvalMain /\ UNCHANGED nonEvalVars
    \/ EvalFrame /\ UNCHANGED nonEvalVars
    \/ ReturnNone /\ UNCHANGED nonEvalVars

SpecEval == InitEval /\ [][NextEval]_vars

\* ------------------------------------------------------------- SpecSubmit
\* Elements the submit selectors match, by the first selector of the list that
\* matches them: one of the first three, or the aria-label one; the text of an
\* invisible one is of no consequence.
SubmitElem(n) == [doc : 0..n, sel : (1..ValidSubmitSelectors) \cup {AriaSubmitSelector},
                  vis : BOOLEAN]
SubmitTrees(n) ==
    {s \in UNION {[1..k -> SubmitElem(n)] : k \in 0..MaxElems} :
        \A i \in 1..(Len(s) - 1) : s[i].doc <= s[i + 1].doc}

\* One evaluation of the submit script over a frozen DOM; in a document where
\* the script throws, frame.evaluate raises.
InitSubmit ==
    /\ \E n \in 0..MaxFrames :
         /\ frames = [i \in 1..(n + 1) |-> i - 1]
         /\ dom \in SubmitTrees(n)
         /\ raw = [d \in 0..n |-> "null"]
    /\ text \in [1..Len(dom) -> {"submit", "contains", "other"}]
    /\ \A i \in 1..Len(dom) : ~dom[i].vis => text[i] = "other"
    /\ query = "submit"
    /\ throws = [d \in AttachedDocs |-> SubmitScriptThrows(d)]
    /\ fe_pc = "main"
    /\ fe_i = 0
    /\ fe_ret = NoneNone
    /\ ClickAtRest
    /\ OpenAtRest
    /\ NameAtRest
    /\ RunAtRest

SpecSubmit == InitSubmit /\ [][NextEval]_vars

\* ------------------------------------------------------------ SpecConfirm
\* The text and the attributes of an invisible element are of no consequence.
ConfirmTrees(n) ==
    {s \in UNION {[1..k -> [doc : 0..n, sel : {0}, vis : BOOLEAN, dlg : BOOLEAN,
                            cls : {"button", "material", "okclass", "aria"}]] :
                  k \in 0..MaxElems} :
        /\ \A i \in 1..(Len(s) - 1) : s[i].doc <= s[i + 1].doc
        /\ \A i \in 1..Len(s) : ~s[i].vis => (~s[i].dlg /\ s[i].cls = "button")
        /\ \A i \in 1..Len(s) : s[i].dlg \/ s[i].cls # "button"}

\* One pass of the confirmation poll: the confirmation script through
\* _evaluate_in_all_frames over a frozen DOM.
InitConfirm ==
    /\ \E n \in 0..MaxFrames :
         /\ frames = [i \in 1..(n + 1) |-> i - 1]
         /\ throws \in [0..n -> BOOLEAN]
         /\ dom \in ConfirmTrees(n)
         /\ raw = [d \in 0..n |-> "null"]
    /\ text \in [1..Len(dom) -> {"allow", "other", "empty"}]
    /\ \A i \in 1..Len(dom) : ~dom[i].vis => text[i] = "other"
    /\ query = "confirm"
    /\ fe_pc = "main"
    /\ fe_i = 0
    /\ fe_ret = NoneNone
    /\ ClickAtRest
    /\ OpenAtRest
    /\ NameAtRest
    /\ RunAtRest

SpecConfirm == InitConfirm /\ [][NextEval]_vars

\* --------------------------------------------------------------- SpecOpen
InitOpen ==
    /\ frames = <<Main>>
    /\ EvalAtRest
    /\ ClickAtRest
    /\ NameAtRest
    /\ \E panel_wait \in -1..MaxPanelWait : panel_wait_seconds = ClampWait(panel_wait)
    /\ op_pc = "poll"
    /\ attempt = 0
    /\ panel_loaded = FALSE
    /\ detected_at = 0
    /\ all_raised = TRUE
    /\ sel_i = 0
    /\ matches = <<>>
    /\ m_idx = 0
    /\ found = FALSE
    /\ clicked = NoClick
    /\ acted = <<>>
    /\ tabs = 0
    /\ op_ret = "none"
    /\ debug_files = "none"
    /\ key_fault = FALSE
    /\ RunAtRest

SpecOpen == InitOpen /\ [][NextOpen]_vars

\* --------------------------------------------------------------- SpecName
InitName ==
    /\ frames = <<Main>>
    /\ EvalAtRest
    /\ ClickAtRest
    /\ OpenAtRest
    /\ post_ok_click \in BOOLEAN
    /\ nm_pc = "menu"
    /\ clickables \in EntryLists
    /\ pass_i = 0
    /\ tried = <<>>
    /\ menu_hit = 0
    /\ clicked_menu_option = FALSE
    /\ clicked_via_js = FALSE
    /\ menu_via = "none"
    /\ hint_entry = "none"
    /\ nm_fault = FALSE
    /\ name_attempt = 0
    /\ name_found_at = 0
    /\ filled = FALSE
    /\ submit_found = "unknown"
    /\ submit_clicked = FALSE
    /\ enter = "none"
    /\ confirm_attempt = 0
    /\ confirm_found_at = 0
    /\ confirm_click = "none"
    /\ fb_inputs = 0
    /\ fb_i = 0
    /\ typed = 0
    /\ nm_ret = "none"
    /\ RunAtRest

SpecName == InitName /\ [][NextName]_vars

\* -------------------------------------------------------------- SpecStages
\* The evaluator over a frozen DOM, open_suggest_edit, or submit_name_change:
\* any one of them, started on its own.
InitStages == InitEval \/ InitOpen \/ InitName
NextStages == NextEval \/ NextOpen \/ NextName
SpecStages == InitStages /\ [][NextStages]_vars

\* --------------------------------------------------------------- SpecCalls
\* One call of a stage operation, started on its own: search_location,
\* open_suggest_edit, submit_name_change or submit_address_change.
PageAtRest == frames = <<Main>> /\ EvalAtRest /\ ClickAtRest

InitSearch ==
    /\ PageAtRest /\ OpenAtRest /\ NameAtRest
    /\ AddrAtRest /\ MainAtRest /\ SessionAtRest
    /\ sr_pc = "selectors"
    /\ sr_i = 1
    /\ search_box = 0
    /\ sr_via = "none"
    /\ sr_ret = "none"

InitAddr ==
    /\ PageAtRest /\ OpenAtRest /\ NameAtRest
    /\ SearchAtRest /\ MainAtRest /\ SessionAtRest
    /\ ad_pc = "menu"
    /\ ad_i = 1
    /\ ad_menu = FALSE
    /\ ad_filled = FALSE
    /\ ad_flag = FALSE
    /\ submitted = FALSE
    /\ ad_ret = "none"

NextSearch == SearchStep /\ UNCHANGED nonSearchVars
NextAddr == AddrStep /\ UNCHANGED nonAddrVars

InitCalls == InitSearch \/ InitOpen \/ InitName \/ InitAddr
NextCalls == NextSearch \/ NextOpen \/ NextName \/ NextAddr
SpecCalls == InitCalls /\ [][NextCalls]_vars

\* ---------------------------------------------------------------- SpecMain
\* One run of main_async with search_location and submit_address_change
\* running inside it; main() passes a name, an address or both.
InitMain ==
    /\ PageAtRest /\ OpenAtRest /\ NameAtRest
    /\ SearchAtRest /\ AddrAtRest /\ SessionAtRest
    /\ name \in BOOLEAN
    /\ address \in BOOLEAN
    /\ name \/ address
    /\ signin_time \in {0, 1}
    /\ m_pc = "construct"
    /\ bot = FALSE
    /\ running = "none"
    /\ entered = <<>>
    /\ returned = NotReturned
    /\ pending = "none"
    /\ m_exit = "none"
    /\ cl_calls = 0
    /\ cl_step = "idle"
    /\ cl_raised = FALSE

idleInMain == <<pageVars, openVars, nameVars, sessionVars>>

NextMain ==
    \/ Construct /\ UNCHANGED nonMainVars
    \/ Setup /\ UNCHANGED nonMainVars
    \/ SignIn /\ UNCHANGED nonMainVars
    \/ EnterSearch /\ UNCHANGED <<idleInMain, addrVars>>
    \/ m_pc = "search" /\ running = "search" /\ SearchStep /\ UNCHANGED nonSearchVars
    \/ ReturnSearch /\ UNCHANGED nonMainVars
    \/ EnterOpen /\ UNCHANGED nonMainVars
    \/ ReturnOpen /\ UNCHANGED nonMainVars
    \/ EnterName /\ UNCHANGED <<idleInMain, searchVars, ad_menu, ad_filled, ad_flag, submitted, ad_ret>>
    \/ ReturnName /\ UNCHANGED nonMainVars
    \/ EnterAddress /\ UNCHANGED <<idleInMain, searchVars, ad_menu, ad_filled, ad_flag, submitted, ad_ret>>
    \/ m_pc = "address" /\ running = "address" /\ AddrStep /\ UNCHANGED nonAddrVars
    \/ ReturnAddress /\ UNCHANGED nonMainVars
    \/ Linger /\ UNCHANGED nonMainVars
    \/ Interrupt /\ UNCHANGED nonMainVars
    \/ Handle /\ UNCHANGED nonMainVars
    \/ Finally /\ UNCHANGED nonMainVars
    \/ CloseContext /\ UNCHANGED nonMainVars
    \/ ClosePlaywright /\ UNCHANGED nonMainVars

SpecMain == InitMain /\ [][NextMain]_vars

\* The event loop runs the one task of main_async until it returns: every
\* awaited call returns or raises.
SpecMainLive == SpecMain /\ WF_vars(NextMain)

\* ------------------------------------------------------------- SpecRunLive
\* A stage operation called on its own, or a run of main_async, with every
\* awaited driver call and sleep returning or raising: the event loop keeps
\* running the coroutine while it has a step to take.
NextRun == (m_pc = "idle" /\ NextCalls) \/ NextMain
SpecRunLive == (InitCalls \/ InitMain) /\ [][NextRun]_vars /\ WF_vars(NextRun)

\* ------------------------------------------------------------- SpecSession
\* Runs of main_async starting as time passes.
InitSession ==
    /\ PageAtRest /\ OpenAtRest /\ NameAtRest
    /\ SearchAtRest /\ AddrAtRest /\ MainAtRest
    /\ now = 0
    /\ sessions = <<>>

NextSession ==
    \/ Tick /\ UNCHANGED nonSessionVars
    \/ StartRun /\ UNCHANGED nonSessionVars

SpecSession == InitSession /\ [][NextSession]_vars

\* ---------------------------------------------------------------- claims
\* A document yields: evaluating the query there does not raise and the result is truthy.
YieldsIn(d) == ~throws[d] /\ Truthy(Evaluate(d))

\* Positions of page.frames holding a sub-document that yields.
YieldingPositions == {i \in 1..Len(frames) : frames[i] # Main /\ YieldsIn(frames[i])}

FirstYieldingSubDoc == frames[CHOOSE i \in YieldingPositions : \A j \in YieldingPositions : i <= j]

\* C1: whenever the top-level document yields a truthy result, the returned pair
\* is that result with the main frame as owner, whatever the sub-documents yield.
C1_MainDocumentPriority ==
    (fe_pc = "done" /\ YieldsIn(Main))
        => fe_ret = [result |-> Evaluate(Main), owner |-> Main]

C1_Witness ==
    /\ fe_pc = "done"
    /\ YieldsIn(Main)
    /\ \E d \in SubDocs : YieldsIn(d)
    /\ fe_ret.owner = Main

\* C2: an exception raised while evaluating in any document counts as no result
\* for that document: it never reaches the caller, the owner of the returned
\* result is never a document that raised, and the scan goes on past it, so a
\* document that yields is still found.
C2_ExceptionsAreNoResult ==
    /\ fe_pc # "raised"
    /\ fe_pc = "done" =>
         /\ fe_ret.owner # NoFrame => ~throws[fe_ret.owner]
         /\ (\E d \in AttachedDocs : YieldsIn(d)) => Truthy(fe_ret.result)

C2_Witness ==
    /\ fe_pc = "done"
    /\ throws[Main]
    /\ \E d1 \in SubDocs : \E d2 \in SubDocs :
         d1 < d2 /\ throws[d1] /\ YieldsIn(d2) /\ fe_ret.owner = d2

ClickInProgress == cl_pc \in {"clicking", "clicked"}

\* No call of _click_xy_in_frame is between its first and its last flag script.
NoBotClickInProgress == cl_pc \in {"idle", "direct", "direct_done", "delay", "returned", "raised"}

C5_FlagReleasedWhereCleared ==
    NoBotClickInProgress => \A d \in AttachedDocs : scriptOk[d] => ~flag[d]

C5_Witness ==
    /\ cl_pc = "raised"
    /\ Cardinality(AttachedDocs) >= 2
    /\ \A d \in AttachedDocs : scriptOk[d] /\ ~flag[d]

\* C5 (as claimed): after _click_xy_in_frame has finished, and whenever no bot
\* click is in progress, the flag is false in every reachable document.
C5_FlagReleasedEverywhere ==
    NoBotClickInProgress => \A d \in AttachedDocs : ~flag[d]

\* C6 (as amended): the flag is set before the click is dispatched and cleared
\* when the click has completed, before the settle delay: the steps of one call
\* come in the order set, click, clear, delay, and during the delay the flag is
\* false wherever the clearing script ran.
C6_ClearedBeforeSettleDelay ==
    /\ \E k \in 0..Len(Protocol) : proto = SubSeq(Protocol, 1, k)
    /\ cl_pc = "delay" =>
         /\ proto = Protocol
         /\ \A d \in AttachedDocs : scriptOk[d] => ~flag[d]

C6_Witness ==
    /\ cl_pc = "delay"
    /\ proto = Protocol
    /\ lastEvent.origin = "bot" /\ lastEvent.botClicking
    /\ \A d \in AttachedDocs : ~flag[d]

\* C6 (as claimed): the flag, true when the bot click was dispatched, is still
\* true during the settle delay that follows the click.
C6_FlagHeldDuringSettleDelay ==
    (cl_pc = "delay" /\ lastEvent.origin = "bot" /\ lastEvent.botClicking)
        => \E d \in AttachedDocs : flag[d]

\* C7: when the pointer click raises, _click_xy_in_frame absorbs the fault and
\* returns normally to its caller.
C7_ClickFaultAbsorbed ==
    cl_pc # "raised"

\* C8: no bot-issued pointer click is dispatched while the suppression flag is
\* false in the document that receives it.
C8_EveryBotClickSuppressed ==
    lastEvent.origin = "bot" => lastEvent.botClicking

\* C9: a click event is recorded if and only if it is trusted and the flag is
\* false in its document at the time of the event, and then exactly once.
C9_RecordedIffTrustedAndUnsuppressed ==
    lastEvent.origin # "none" =>
        lastEvent.recorded = (IF lastEvent.isTrusted /\ ~lastEvent.botClicking THEN 1 ELSE 0)

C9_Witness ==
    /\ ClickInProgress
    /\ lastEvent.origin = "human"
    /\ lastEvent.recorded = 1
    /\ \E d \in AttachedDocs : flag[d]

\* Element i is the first match of candidate c in document d.
FirstMatchIn(d, c, i) ==
    /\ dom[i].doc = d /\ dom[i].sel = c
    /\ \A j \in 1..(i - 1) : ~(dom[j].doc = d /\ dom[j].sel = c)

\* The place-name script finds something in document d when it runs there.
Resolvable(d) ==
    /\ ~throws[d]
    /\ \E i \in 1..Len(dom) :
         /\ dom[i].doc = d /\ dom[i].vis
         /\ dom[i].sel = 0 \/ FirstMatchIn(d, dom[i].sel, i)

\* Evaluation order: the top-level document, then the sub-documents as registered.
EvaluatedBefore(e, d) ==
    /\ e # d
    /\ e = Main \/ \E i \in 1..Len(frames) : \E j \in 1..Len(frames) :
                     i < j /\ frames[i] = e /\ frames[j] = d /\ d # Main

\* C10 (as amended): a target found by the candidate list comes from the first
\* document, in evaluation order, in which the script finds anything; within that
\* document it is the first match of the lowest-index candidate whose first match
\* in document order is visible.
C10_LowestCandidateOfFirstResolvableDocument ==
    (fe_pc = "done" /\ query = "place_name" /\ fe_ret.result.foundBy = "captured-selectors") =>
        LET r == fe_ret.result
            d == fe_ret.owner
        IN  /\ r.doc = d
            /\ FirstMatchIn(d, r.sel, r.idx)
            /\ dom[r.idx].vis
            /\ \A c \in 1..(r.sel - 1) : \A i \in 1..Len(dom) :
                 FirstMatchIn(d, c, i) => ~dom[i].vis
            /\ \A e \in AttachedDocs : EvaluatedBefore(e, d) => ~Resolvable(e)

C10_Witness ==
    /\ fe_pc = "done"
    /\ query = "place_name"
    /\ fe_ret.result.foundBy = "captured-selectors"
    /\ \E j \in 1..(fe_ret.result.idx - 1) :
         /\ dom[j].doc = fe_ret.owner
         /\ dom[j].vis
         /\ dom[j].sel > fe_ret.result.sel

\* The candidates with a visible match in some document that can be evaluated.
VisibleCandidates ==
    {c \in 1..NumCandidates :
        \E i \in 1..Len(dom) : dom[i].sel = c /\ dom[i].vis /\ ~throws[dom[i].doc]}

\* C10 (as claimed): with a visible match anywhere in the document tree, the
\* returned target is a visible match of the lowest-index candidate that has one
\* (stated for trees without label-proximity inputs, so that only the candidate
\* list decides).
C10_LowestCandidateOfWholeTree ==
    (/\ fe_pc = "done" /\ query = "place_name"
     /\ \A i \in 1..Len(dom) : dom[i].sel # 0
     /\ VisibleCandidates # {}) =>
        /\ fe_ret.result.kind = "target"
        /\ fe_ret.result.sel = CHOOSE c \in VisibleCandidates : \A c2 \in VisibleCandidates : c <= c2

\* C11 (as amended): a candidate is not searched for its first visible match.
\* The name-input cascade looks at the first match of a candidate only: a target
\* it returns is the first match in document order of its candidate, and is
\* visible. The menu-open cascade looks at the first three matches of a
\* selector: the element it clicks is among them, is visible and enabled, and is
\* the first of them whose click returns; a selector left without a click has no
\* such element among its first three matches.
C11_FirstMatchOrFirstThree ==
    /\ (fe_pc = "done" /\ query = "place_name" /\ fe_ret.result.foundBy = "captured-selectors") =>
         /\ FirstMatchIn(fe_ret.owner, fe_ret.result.sel, fe_ret.result.idx)
         /\ dom[fe_ret.result.idx].vis
    /\ clicked # NoClick =>
         /\ clicked.idx <= MatchWindow
         /\ matches[clicked.idx] = "clickable"
         /\ \A j \in 1..(clicked.idx - 1) : matches[j] # "clickable"
    /\ (op_pc = "tier1" /\ m_idx > Min(Len(matches), MatchWindow) /\ m_idx > 1) =>
         \A j \in 1..Len(matches) : j <= MatchWindow => matches[j] # "clickable"

C11_Witness ==
    /\ clicked.idx = MatchWindow
    /\ Len(matches) > MatchWindow
    /\ \A j \in 1..(MatchWindow - 1) : matches[j] = "hidden"

\* The candidates that match something in the document tree.
MatchingCandidates == {c \in 1..NumCandidates : \E i \in 1..Len(dom) : dom[i].sel = c}

\* C11 (as claimed): when a candidate matches several elements and the earlier
\* ones are not visible, the cascade takes the candidate's first visible match,
\* however many invisible matches precede it: in the name-input cascade (stated
\* for a single document in which one candidate alone matches), and in the
\* menu-open cascade (a selector is not left while it has a clickable match).
C11_FirstVisibleMatchWins ==
    /\ (/\ fe_pc = "done" /\ query = "place_name" /\ Len(frames) = 1 /\ ~throws[Main]
        /\ Cardinality(MatchingCandidates) = 1
        /\ \A i \in 1..Len(dom) : dom[i].sel # 0
        /\ \E i \in 1..Len(dom) : dom[i].vis) =>
         /\ fe_ret.result.kind = "target"
         /\ dom[fe_ret.result.idx].vis
         /\ \A j \in 1..(fe_ret.result.idx - 1) : ~dom[j].vis
    /\ (op_pc = "tier1" /\ m_idx > Min(Len(matches), MatchWindow) /\ m_idx > 1) =>
         \A j \in 1..Len(matches) : matches[j] # "clickable"

\* Candidate c has no match in document d, or its first match there is not visible.
NothingUsable(d, c) ==
    \A i \in 1..Len(dom) : FirstMatchIn(d, c, i) => ~dom[i].vis

\* C12 (as amended): with the candidate list [A, B, ...], in the first document
\* in which the script finds anything: when A has no match or its first match is
\* not visible, and the first match of B is visible, the target is that element
\* of B; A is skipped.
C12_FallThroughToFirstMatchOfNext ==
    (fe_pc = "done" /\ query = "place_name") =>
        \A d \in AttachedDocs : \A i \in 1..Len(dom) :
            (/\ ~throws[d]
             /\ \A e \in AttachedDocs : EvaluatedBefore(e, d) => ~Resolvable(e)
             /\ NothingUsable(d, 1)
             /\ FirstMatchIn(d, 2, i) /\ dom[i].vis)
            => fe_ret = [result |-> Target(d, i, "captured-selectors"), owner |-> d]

C12_Witness ==
    /\ fe_pc = "done"
    /\ query = "place_name"
    /\ fe_ret.result.foundBy = "captured-selectors"
    /\ fe_ret.result.sel = 2
    /\ \E j \in 1..(fe_ret.result.idx - 1) :
         dom[j].doc = fe_ret.owner /\ dom[j].sel = 1 /\ ~dom[j].vis

\* C12 (as claimed): A matches nothing visible and B matches exactly one visible
\* element; the resolution returns that element (stated for a single document
\* without label-proximity inputs).
C12_FallThroughToVisibleMatch ==
    (fe_pc = "done" /\ query = "place_name" /\ Len(frames) = 1 /\ ~throws[Main]) =>
        \A i \in 1..Len(dom) :
            (/\ \A j \in 1..Len(dom) : dom[j].sel # 0
             /\ \A j \in 1..Len(dom) : dom[j].sel = 1 => ~dom[j].vis
             /\ dom[i].sel = 2 /\ dom[i].vis
             /\ \A j \in 1..Len(dom) : (dom[j].sel = 2 /\ dom[j].vis) => j = i)
            => fe_ret.result.idx = i /\ fe_ret.result.kind = "target"

\* C13: each bounded poll stops at the first pass that resolves its target and
\* makes no further pass; when no pass resolves it, the poll makes exactly its
\* ceiling of passes and the stage goes on: the panel poll (ceiling
\* panel_wait_seconds, 3 by default) to the menu-open tiers, the name-input poll
\* (ceiling 20) to the editable-element fallback, the confirmation poll (ceiling
\* 6) to the successful return.
C13_BoundedPolling ==
    /\ attempt <= PanelAttempts
    /\ op_pc \notin {"idle", "poll"} =>
         IF detected_at > 0
         THEN attempt = detected_at /\ panel_loaded
         ELSE attempt = PanelAttempts /\ ~panel_loaded
    /\ name_attempt <= NameAttempts
    /\ name_found_at > 0 => (name_attempt = name_found_at /\ nm_pc \notin {"poll", "fallback", "fb_input"})
    /\ nm_pc \in {"fallback", "fb_input"} => (name_attempt = NameAttempts /\ name_found_at = 0)
    /\ confirm_attempt <= ConfirmAttempts
    /\ confirm_found_at > 0 => (confirm_attempt = confirm_found_at /\ nm_pc = "done")
    /\ (nm_pc = "done" /\ filled /\ submit_clicked /\ post_ok_click /\ confirm_found_at = 0)
         => (confirm_attempt = ConfirmAttempts /\ nm_ret = "True")

C13_Witness ==
    /\ nm_pc = "done"
    /\ name_found_at = NameAttempts
    /\ name_attempt = NameAttempts
    /\ confirm_found_at = ConfirmAttempts
    /\ confirm_attempt = ConfirmAttempts

\* The entries of the listing whose text contains the business name.
HintEntries == {i \in 1..Len(JsResult) : JsResult[i] = "hint"}
\* The coordinate passes have run over a listing and the listing is still there.
PassesOver == nm_pc \in {"selectors", "gate"} /\ pass_i >= 1

\* C14 (as amended): the listing holds the first clickable elements of the
\* top-level document up to its cap (ten). When a visible entry of the listing
\* contains the business name, the first entry a click is attempted on is the
\* first such entry, whatever precedes it in the listing; when a click of the
\* first pass returns, the entry clicked contains the name and no other entry
\* is clicked. An entry beyond the cap is never looked at.
C14_HintFirstWithinListing ==
    /\ \A k \in 1..Len(tried) : tried[k] <= EntryCap
    /\ (nm_pc \in {"pass2", "pass3", "selectors", "gate"} /\ pass_i >= 1 /\ HintEntries # {}) =>
         /\ tried # <<>>
         /\ tried[1] = CHOOSE i \in HintEntries : \A j \in HintEntries : i <= j
    /\ menu_via = "hint" /\ menu_hit # 0 =>
         /\ \A k \in 1..Len(tried) : tried[k] \in HintEntries
         /\ menu_hit = tried[Len(tried)]

C14_Witness ==
    /\ menu_via = "hint"
    /\ menu_hit = EntryCap
    /\ tried = <<menu_hit>>
    /\ \A j \in 1..(menu_hit - 1) : clickables[j] = "plain"

\* C14 (as claimed): if any visible entry contains the business name, the entry
\* clicked contains it, for every position of that entry among the clickable
\* elements (stated for runs in which no click raised).
C14_HintOutranksOrder ==
    (/\ menu_hit # 0 /\ tried = <<menu_hit>>
     /\ \E i \in 1..Len(clickables) : clickables[i] = "hint")
        => clickables[menu_hit] = "hint"

\* Listing entries with text of more than one character and without 'http'.
MeaningfulEntries == {i \in 1..Len(JsResult) : JsResult[i] \in {"plain", "hint"}}
\* Listing entries that are visible and have text.
TextEntries == {i \in 1..Len(JsResult) : JsResult[i] \notin {"hidden", "empty"}}

SubmitLike(i) ==
    dom[i].vis /\ text[i] \in {"submit", "contains"} /\ dom[i].sel <= ValidSubmitSelectors

\* Within one document the script reaches element i before element j.
ScannedBefore(i, j) ==
    dom[i].sel < dom[j].sel \/ (dom[i].sel = dom[j].sel /\ i < j)

C17_EnterFallbackSucceeds ==
    /\ (filled /\ submit_found = "no") => nm_ret # "False"
    /\ (nm_pc = "done" /\ filled /\ submit_found = "no") => (enter # "none" /\ nm_ret = "True")
    /\ enter # "none" => (filled /\ submit_found = "no")

C17_Witness ==
    /\ nm_pc = "done"
    /\ filled
    /\ submit_found = "no"
    /\ enter = "raised"
    /\ nm_ret = "True"

\* C18: once the click on the submit control has returned, submit_name_change
\* returns True: whether a confirmation control is found within the six passes
\* or not, and whether the click on it returns or raises.
C18_ConfirmationOptional ==
    /\ submit_clicked => nm_ret # "False"
    /\ (nm_pc = "done" /\ submit_clicked) => nm_ret = "True"
    /\ confirm_click # "none" => submit_clicked

C18_Witness ==
    /\ nm_pc = "done"
    /\ submit_clicked
    /\ confirm_click = "raised"
    /\ confirm_attempt > 1
    /\ nm_ret = "True"

\* C19: when no probe of the panel poll sees the panel, probes that raise
\* included, open_suggest_edit neither fails nor returns: it has made all its
\* probes and goes on into the selector cascade of tier 1.
C19_PollExhaustionContinues ==
    (op_pc \notin {"idle", "poll"} /\ ~panel_loaded) =>
        /\ attempt = PanelAttempts
        /\ sel_i >= 1
        /\ op_ret # "False"
        /\ op_ret = "True" => op_pc = "done"

C19_Witness ==
    /\ op_pc = "tier1"
    /\ ~panel_loaded
    /\ all_raised
    /\ attempt >= 2
    /\ m_idx >= 1

\* C20: the tiers act in the order selector cascade, offset click, keyboard; a
\* tier acts only when no earlier tier has succeeded, and after a tier has
\* succeeded no later tier clicks or presses a key; the keyboard tier succeeds
\* with five Tab presses followed by Enter.
C20_TierOrder ==
    /\ \A k \in 1..(Len(acted) - 1) : acted[k] < acted[k + 1]
    /\ clicked # NoClick => (found /\ acted = <<1>>)
    /\ op_pc = "keys" => ~found
    /\ (found /\ acted # <<>>) =>
         /\ acted[Len(acted)] = 3 => tabs = TabPresses
         /\ acted[Len(acted)] = 2 => tabs = 0
    /\ found => acted # <<>>

C20_Witness ==
    /\ op_pc = "done"
    /\ found
    /\ acted = <<1, 2, 3>>
    /\ tabs = TabPresses

C22_FailureOnlyOnInputExhaustion ==
    nm_ret = "False" =>
        (name_found_at = 0 /\ name_attempt = NameAttempts /\ fb_inputs = 0)

Requested(st) ==
    CASE st = "name" -> name
      [] st = "address" -> address
      [] OTHER -> TRUE

WasEntered(st) == \E k \in 1..Len(entered) : entered[k] = st

AllRequestedEntered == \A st \in StageSet : Requested(st) => WasEntered(st)

\* The try block was left by a return or by running to its end, not by a setup
\* failure, a missing sign-in or an interruption.
LeftByStages == m_pc = "exited" /\ m_exit \in {"normal", "search_failed"}

\* C23 (as amended): a False from open_suggest_edit, submit_name_change or
\* submit_address_change does not end the run, every requested stage is still
\* entered; a False from search_location does end it, with no later stage
\* entered.
C23_StageFailureContinuesExceptSearch ==
    /\ (LeftByStages /\ returned["search"] = "True") =>
          (m_exit = "normal" /\ AllRequestedEntered)
    /\ (m_pc \in {"open", "name", "address", "linger"}) => returned["search"] = "True"
    /\ (LeftByStages /\ returned["search"] = "False") =>
          (m_exit = "search_failed" /\ entered = <<"search">>)

C23_Witness ==
    /\ LeftByStages /\ m_exit = "normal"
    /\ returned["open"] = "False" /\ returned["name"] = "False"
    /\ WasEntered("address")

\* C23 (as stated): a False from any stage does not end the run.
C23_StageFailureNeverEndsRun == LeftByStages => AllRequestedEntered

\* C24: close() never lets an exception out, and once the bot object exists
\* every run of main_async comes to call close() and see it return, however the
\* try block is left.
C24_OrderlyShutdown ==
    /\ [](~cl_raised /\ cl_calls <= 1)
    /\ [](bot => <>(m_pc = "exited" /\ cl_calls = 1 /\ cl_step = "returned"))

C24_Witness ==
    /\ m_pc = "exited" /\ m_exit = "cancelled"
    /\ running = "address" /\ ad_pc \notin {"idle", "done"}
    /\ cl_calls = 1 /\ cl_step = "returned"

\* C25 (as stated): a run started with new_session uses a profile directory
\* that no run before it has used.
C25_FreshDirectoryUnused ==
    \A i \in 1..Len(sessions) : \A j \in 1..Len(sessions) :
        (i < j /\ sessions[j].new_session) => sessions[j].dir # sessions[i].dir

Rank(st) == CHOOSE k \in 1..Len(Stages) : Stages[k] = st

\* C26: the stages are entered in the order search, menu-open, name edit,
\* address edit, each at most once, the edits only when requested, and a stage
\* is entered only after every stage entered before it has returned.
C26_LinearStageOrder ==
    /\ \A i \in 1..Len(entered) : \A j \in 1..Len(entered) :
         i < j => Rank(entered[i]) < Rank(entered[j])
    /\ \A i \in 1..(Len(entered) - 1) : returned[entered[i]] # "none"
    /\ Len(entered) >= 1 => entered[1] = "search"
    /\ Len(entered) >= 2 => entered[2] = "open"
    /\ \A st \in StageSet : WasEntered(st) => Requested(st)
    /\ \A st \in StageSet : returned[st] # "none" => WasEntered(st)
    /\ running # "none" => (entered # <<>> /\ entered[Len(entered)] = running)

C26_Witness ==
    /\ entered = Stages
    /\ m_exit = "normal"

\* No candidate of the list has a visible first match in any document, and some
\* document the script can run in has a visible input next to a label.
OnlyLabelResolvable ==
    /\ \A d \in AttachedDocs : \A c \in 1..NumCandidates : \A i \in 1..Len(dom) :
         FirstMatchIn(d, c, i) => ~dom[i].vis
    /\ \E i \in 1..Len(dom) : dom[i].sel = 0 /\ dom[i].vis /\ ~throws[dom[i].doc]

\* The end-to-end scenario inside submit_name_change: the entry with the hint,
\* the name input, the submit control and the confirmation control are there.
ScenarioFound ==
    /\ nm_pc = "done"
    /\ ~nm_fault
    /\ name_found_at > 0
    /\ submit_found = "yes"

ScenarioDone ==
    /\ menu_via = "hint"
    /\ filled
    /\ submit_clicked
    /\ confirm_click = "clicked"
    /\ nm_ret = "True"

C28_StagesReturnBooleans ==
    /\ sr_ret \in {"none", "True", "False"} /\ (sr_pc = "done" <=> sr_ret # "none")
    /\ op_ret \in {"none", "True", "False"} /\ (op_pc = "done" <=> op_ret # "none")
    /\ nm_ret \in {"none", "True", "False"} /\ (nm_pc = "done" <=> nm_ret # "none")
    /\ ad_ret \in {"none", "True", "False"} /\ (ad_pc = "done" <=> ad_ret # "none")

C28_Witness ==
    /\ sr_pc = "done" /\ sr_ret = "False"
    /\ search_box = SearchSelectors

\* C29 (as stated): the editable-element fallback types the new name into at
\* most one element; taken here for the calls in which no driver call raises.
C29_AtMostOneFallbackInputTyped == ~nm_fault => typed <= 1

\* C30 (as stated): submit_address_change clicks a submit control only after
\* the new address was entered into an address input.
C30_SubmitAfterAddressEntered == submitted => ad_filled

\* C31 (as amended): the tiers are ordered inside each document, not over the
\* document tree. A target tagged 'label-proximity' comes from the first
\* document in evaluation order in which the script finds anything, and in that
\* document no candidate of the list has a visible first match.
C31_LabelTierAfterCandidatesOfItsDocument ==
    (fe_pc = "done" /\ query = "place_name" /\ fe_ret.result.foundBy = "label-proximity") =>
        LET r == fe_ret.result
            d == fe_ret.owner
        IN  /\ r.doc = d
            /\ dom[r.idx].sel = 0 /\ dom[r.idx].vis
            /\ \A c \in 1..NumCandidates : \A i \in 1..Len(dom) :
                 FirstMatchIn(d, c, i) => ~dom[i].vis
            /\ \A e \in AttachedDocs : EvaluatedBefore(e, d) => ~Resolvable(e)

\* A label-proximity target of one document while a document evaluated later
\* has a candidate with a visible first match.
C31_Witness ==
    /\ fe_pc = "done"
    /\ query = "place_name"
    /\ fe_ret.result.foundBy = "label-proximity"
    /\ \E i \in 1..Len(dom) :
         /\ dom[i].sel > 0 /\ dom[i].vis
         /\ ~throws[dom[i].doc]
         /\ FirstMatchIn(dom[i].doc, dom[i].sel, i)
         /\ EvaluatedBefore(fe_ret.owner, dom[i].doc)

\* C31 (as stated): a target tagged 'label-proximity' is returned only when no
\* candidate has a visible match in any document that can be evaluated.
C31_LabelTierAfterCandidatesOfWholeTree ==
    (fe_pc = "done" /\ query = "place_name" /\ fe_ret.result.foundBy = "label-proximity") =>
        VisibleCandidates = {}

\* C32 (as stated): search_location fills the query into search_box only when
\* the selector loop was left through the break after wait_for(state="visible")
\* returned for that locator; when the loop ran out, the keyboard path is taken.
C32_FillOnlyConfirmedVisible ==
    (sr_pc = "fill" \/ sr_via = "fill") => (sr_i <= SearchSelectors /\ search_box = sr_i)

\* C33 (as stated): the control the confirmation script resolves, which the
\* confirmation stage then clicks, is inside a dialog container; it has an
\* allow-listed label whenever its document has a visible dialog control with
\* one.
C33_ConfirmTargetInsideDialog ==
    (fe_pc = "done" /\ query = "confirm" /\ fe_ret.result.kind = "target") =>
        LET r == fe_ret.result
        IN  /\ dom[r.idx].dlg
            /\ (\E j \in 1..Len(dom) :
                   dom[j].doc = r.doc /\ dom[j].dlg /\ dom[j].vis /\ text[j] = "allow")
                 => text[r.idx] = "allow"

\* C34: no loop of a stage operation passes its ceiling, every stage operation
\* called on its own comes to return, and every run of main_async comes to the
\* end of its finally block.
C34_Termination ==
    /\ [](/\ attempt <= (IF panel_wait_seconds = 0 THEN 1 ELSE panel_wait_seconds)
          /\ sel_i <= NumSelectors + 1
          /\ tabs <= TabPresses
          /\ name_attempt <= NameAttempts
          /\ confirm_attempt <= ConfirmAttempts
          /\ fb_i <= fb_inputs + 1
          /\ sr_i <= SearchSelectors + 1
          /\ ad_i <= AddrMenuSelectors + 1)
    /\ <>(IF m_pc = "idle"
          THEN sr_pc = "done" \/ op_pc = "done" \/ nm_pc = "done" \/ ad_pc = "done"
          ELSE m_pc = "exited")

\* open_suggest_edit returned after a panel poll that ran to its ceiling, all
\* selectors, five Tab presses and the last resort.
C34_Witness ==
    /\ m_pc = "idle"
    /\ op_pc = "done"
    /\ panel_wait_seconds = MaxPanelWait /\ attempt = MaxPanelWait /\ ~panel_loaded
    /\ sel_i = NumSelectors + 1
    /\ tabs = TabPresses
    /\ debug_files # "none"

C36_InvalidDescriptorEndsScan ==
    (fe_pc = "done" /\ query = "submit") =>
        LET reached == {i \in 1..Len(dom) :
                          /\ dom[i].sel <= ValidSubmitSelectors
                          /\ dom[i].vis /\ text[i] \in {"submit", "contains"}}
        IN  IF reached = {}
            THEN fe_ret = NoneNone
            ELSE fe_ret.result.kind = "target" /\ fe_ret.result.idx \in reached

\* No target although a visible element with the text 'submit' carries a
\* matching aria-label.
C36_Witness ==
    /\ fe_pc = "done"
    /\ query = "submit"
    /\ fe_ret = NoneNone
    /\ \E i \in 1..Len(dom) :
         dom[i].sel = AriaSubmitSelector /\ dom[i].vis /\ text[i] = "submit"

\* C37: the stored panel wait is never negative, and the panel poll makes at
\* least one probe and at most max(1, panel_wait_seconds) probes; with a panel
\* wait of 0 it makes exactly one probe before the stage goes on.
C37_PanelPollAttemptCount ==
    /\ panel_wait_seconds >= 0
    /\ attempt <= (IF panel_wait_seconds > 1 THEN panel_wait_seconds ELSE 1)
    /\ op_pc \notin {"idle", "poll"} =>
         /\ attempt >= 1
         /\ panel_wait_seconds = 0 => attempt = 1

C37_Witness ==
    /\ op_pc = "done"
    /\ panel_wait_seconds = 0
    /\ attempt = 1
    /\ ~panel_loaded

\* C38: the keyboard tier sets found when its five Tab presses and its Enter
\* press all return, whatever the page did with them; so the last-resort text
\* scan, the debug artifacts and the passive wait are reached only in calls in
\* which a key press of the keyboard tier raised.
C38_KeyboardTierBlindSuccess ==
    /\ (op_pc \in {"last", "report", "done"} /\ 3 \in {acted[k] : k \in 1..Len(acted)} /\ ~key_fault)
         => (found /\ tabs = TabPresses)
    /\ (4 \in {acted[k] : k \in 1..Len(acted)} \/ debug_files # "none") => key_fault
    /\ (op_pc \in {"report", "done"} /\ ~found) => key_fault

\* The keys all returned, nothing else had acted, and the call returned True
\* without the last resort or the artifacts.
C38_Witness ==
    /\ op_pc = "done"
    /\ acted = <<3>>
    /\ ~key_fault
    /\ found
    /\ debug_files = "none"
    /\ op_ret = "True"

\* C39: a trusted click of the user whose event fires in a document while
\* window.__botClicking is true there makes no record, and none is made for it
\* afterwards: once the flag is cleared the event still has no record, and a
\* record appears only with a later event that is itself trusted and fired with
\* the flag false.
C39_SuppressedHumanClickDropped ==
    /\ []((lastEvent.origin = "human" /\ lastEvent.botClicking) => lastEvent.recorded = 0)
    /\ [][(lastEvent.origin = "human" /\ lastEvent.botClicking)
            => \/ lastEvent' = lastEvent
               \/ lastEvent'.recorded = 0
               \/ (lastEvent'.isTrusted /\ ~lastEvent'.botClicking)]_vars

\* The user clicked while a bot click held the flag; the bot click has ended,
\* the flag is false in every document, and the click has no record.
C39_Witness ==
    /\ ~ClickInProgress
    /\ lastEvent.origin = "human"
    /\ lastEvent.isTrusted
    /\ lastEvent.botClicking
    /\ lastEvent.recorded = 0
    /\ \A d \in AttachedDocs : ~flag[d]

\* C40: one call of submit_name_change dispatches at most one confirmation
\* click: the pass that finds a confirmation control clicks it and is the last
\* pass of the poll. It dispatches none, and makes no pass at all, when
\* post_ok_click is false, and none when no submit control was resolved and
\* Enter was pressed instead.
C40_AtMostOneConfirmClick ==
    /\ [](confirm_click # "none" =>
            /\ post_ok_click
            /\ submit_clicked
            /\ enter = "none"
            /\ confirm_found_at = confirm_attempt)
    /\ []((~post_ok_click \/ enter # "none" \/ ~submit_clicked) =>
            (confirm_attempt = 0 /\ confirm_click = "none" /\ confirm_found_at = 0))
    /\ [][confirm_click # "none" =>
            (confirm_click' = confirm_click /\ confirm_attempt' = confirm_attempt
             /\ confirm_found_at' = confirm_found_at)]_vars

\* The third pass found a confirmation control, clicked it, and the call
\* returned True with the later passes not made.
C40_Witness ==
    /\ nm_pc = "done"
    /\ post_ok_click
    /\ submit_clicked
    /\ confirm_click = "clicked"
    /\ confirm_found_at = 3
    /\ confirm_attempt = 3
    /\ nm_ret = "True"

====
